---- MODULE Spec2Model ----
(***************************************************************************)
(* A model of the composable consistent-probability sampler               *)
(* (package sampler): the tracestate codec of tracestate.go, the          *)
(* composable samplers and the CompositeSampler adapter of sampler.go.    *)
(*                                                                         *)
(* Strings are TLA+ strings; a Go index is 0-based, so the Go slice        *)
(* s[lo:hi] is SubSeq(s, lo+1, hi).                                        *)
(*                                                                         *)
(* A 64-bit integer is written base 16 as a sequence of Int64Digits hex    *)
(* digits, most significant first; the leading digit carries the sign      *)
(* (-8..7), so that the order of two values is the lexicographic order of  *)
(* their digits.  TLC's own integers are 32 bits wide and cannot hold a    *)
(* 56-bit threshold.                                                       *)
(***************************************************************************)
EXTENDS Integers, Sequences, FiniteSets, TLC

----------------------------------------------------------------------------
(* Go's strings package *)

\* strings.IndexByte(s, c): 0-based index of the first c in s, or -1
RECURSIVE IndexByteFrom(_, _, _)
IndexByteFrom(s, c, i) ==
  IF i >= Len(s) THEN -1
  ELSE IF SubSeq(s, i + 1, i + 1) = c THEN i
  ELSE IndexByteFrom(s, c, i + 1)

IndexByte(s, c) == IndexByteFrom(s, c, 0)

\* strings.HasPrefix(s, prefix)
HasPrefix(s, prefix) ==
  Len(s) >= Len(prefix) /\ SubSeq(s, 1, Len(prefix)) = prefix

\* strings.Index(s, substr): 0-based index of the first occurrence, or -1
RECURSIVE IndexFrom(_, _, _)
IndexFrom(s, substr, i) ==
  IF i + Len(substr) > Len(s) THEN -1
  ELSE IF SubSeq(s, i + 1, i + Len(substr)) = substr THEN i
  ELSE IndexFrom(s, substr, i + 1)

Index(s, substr) == IndexFrom(s, substr, 0)

\* a slip: nothing is trimmed
TrimRightNothing(s) == s

\* strings.TrimRight(s, "0")
RECURSIVE TrimRightZeros(_)
TrimRightZeros(s) ==
  IF Len(s) > 0 /\ SubSeq(s, Len(s), Len(s)) = "0"
  THEN TrimRightZeros(SubSeq(s, 1, Len(s) - 1))
  ELSE s

----------------------------------------------------------------------------
(* 64-bit integers as hex digits *)

\* an int64 (sampler.go: Threshold int64) holds 16 hex digits
Int64Digits == 16

\* maximum precision is 56 bits: 14 hex digits
maxp == 14

\* bits per hex digit
hbits == 4

\* default precision
defaultSamplingPrecision == 4

Int64Zero == [i \in 1..Int64Digits |-> 0]

\* a <  b, for two int64 values
RECURSIVE LtFrom(_, _, _)
LtFrom(a, b, i) ==
  IF i > Int64Digits THEN FALSE
  ELSE IF a[i] # b[i] THEN a[i] < b[i]
  ELSE LtFrom(a, b, i + 1)

Lt(a, b) == LtFrom(a, b, 1)

Leq(a, b) == a = b \/ Lt(a, b)

\* the value of one character as a hex digit, -1 when it is none
\* (strconv.ParseUint, base 16: no sign, no underscore, either case)
HexDigitValue(c) ==
  CASE c = "0" -> 0  [] c = "1" -> 1  [] c = "2" -> 2  [] c = "3" -> 3
    [] c = "4" -> 4  [] c = "5" -> 5  [] c = "6" -> 6  [] c = "7" -> 7
    [] c = "8" -> 8  [] c = "9" -> 9
    [] c = "a" -> 10 [] c = "b" -> 11 [] c = "c" -> 12
    [] c = "d" -> 13 [] c = "e" -> 14 [] c = "f" -> 15
    [] c = "A" -> 10 [] c = "B" -> 11 [] c = "C" -> 12
    [] c = "D" -> 13 [] c = "E" -> 14 [] c = "F" -> 15
    [] OTHER -> -1

\* the lower-case character of a hex digit (strconv.FormatUint, base 16)
HexDigitChar(d) ==
  CASE d = 0 -> "0"  [] d = 1 -> "1"  [] d = 2 -> "2"  [] d = 3 -> "3"
    [] d = 4 -> "4"  [] d = 5 -> "5"  [] d = 6 -> "6"  [] d = 7 -> "7"
    [] d = 8 -> "8"  [] d = 9 -> "9"  [] d = 10 -> "a" [] d = 11 -> "b"
    [] d = 12 -> "c" [] d = 13 -> "d" [] d = 14 -> "e" [] d = 15 -> "f"

\* strconv.ParseUint(val, 16, 64) of a string of at most 15 characters (the
\* callers pass at most 14): the digits right-aligned, or a syntax error
ParseUint(val) ==
  LET n == Len(val)
      bad == n = 0 \/ \E i \in 1..n : HexDigitValue(SubSeq(val, i, i)) < 0
  IN  [err |-> bad,
       v |-> IF bad THEN Int64Zero
             ELSE [i \in 1..Int64Digits |->
                     IF i > Int64Digits - n
                     THEN HexDigitValue(SubSeq(val, i - (Int64Digits - n),
                                                    i - (Int64Digits - n)))
                     ELSE 0]]

\* v << (hbits * n): n hex digits to the left, the digits shifted out lost
ShiftLeftDigits(v, n) ==
  [i \in 1..Int64Digits |-> IF i + n <= Int64Digits THEN v[i + n] ELSE 0]

\* strconv.FormatUint(uint64(v), 16): lower-case hex without leading zeros
RECURSIVE FormatFrom(_, _)
FormatFrom(v, i) ==
  IF i > Int64Digits THEN ""
  ELSE HexDigitChar(v[i] % 16) \o FormatFrom(v, i + 1)

RECURSIVE FirstNonZero(_, _)
FirstNonZero(v, i) ==
  IF i > Int64Digits THEN i
  ELSE IF v[i] # 0 THEN i
  ELSE FirstNonZero(v, i + 1)

FormatUint(v) ==
  IF v = Int64Zero THEN "0" ELSE FormatFrom(v, FirstNonZero(v, 1))

----------------------------------------------------------------------------
(* trace.TraceState of the tracing SDK: an ordered list of key=value        *)
(* members.  Only the operations the sampler calls are modelled.            *)

EmptyTraceState == << >>

TsLen(ts) == Len(ts)

\* TraceState.Get(key): the member's value, "" when there is none
TsGet(ts, key) ==
  IF \E i \in 1..Len(ts) : ts[i].Key = key
  THEN ts[CHOOSE i \in 1..Len(ts) : ts[i].Key = key].Value
  ELSE ""

\* the list without the member of that key
TsWithout(ts, key) == SelectSeq(ts, LAMBDA m : m.Key # key)

\* TraceState.Delete(key)
TsDelete(ts, key) == TsWithout(ts, key)

\* TraceState.Insert(key, value): the member put (or moved) in front; an
\* empty value is not a valid member value: the receiver and an error
TsInsert(ts, key, value) ==
  IF Len(value) = 0
  THEN [ts |-> ts, err |-> TRUE]
  ELSE [ts |-> << [Key |-> key, Value |-> value] >> \o TsWithout(ts, key),
        err |-> FALSE]

----------------------------------------------------------------------------
(* tracestate.go *)

randomnessSearchKey == ";rv:"
thresholdSearchKey == ";th:"

\* tracestateHasOTelField.  `high` is an index into otts[low:], and is used
\* as an index into otts: the slice expression otts[low:high] panics when
\* high < low.
tracestateHasOTelField(otts, search) ==
  LET found == HasPrefix(otts, SubSeq(search, 2, Len(search)))
                 \/ Index(otts, search) > 0
      low   == IF HasPrefix(otts, SubSeq(search, 2, Len(search)))
               THEN 3
               ELSE Index(otts, search) + 4
      rel   == IndexByte(SubSeq(otts, low + 1, Len(otts)), ";")
      high  == IF rel < 0 THEN Len(otts) ELSE rel
  IN  IF ~found THEN [value |-> "", has |-> FALSE, panic |-> FALSE]
      ELSE IF high < low THEN [value |-> "", has |-> FALSE, panic |-> TRUE]
      ELSE [value |-> SubSeq(otts, low + 1, high), has |-> TRUE,
            panic |-> FALSE]

\* tracestateHasRandomness: (value, found), the number of otel.Handle calls,
\* and whether the lookup panicked
tracestateHasRandomness(otts) ==
  LET f == tracestateHasOTelField(otts, randomnessSearchKey)
      p == ParseUint(f.value)
  IN  IF f.panic
      THEN [v |-> Int64Zero, has |-> FALSE, handled |-> 0, panic |-> TRUE]
      ELSE IF ~f.has
      THEN [v |-> Int64Zero, has |-> FALSE, handled |-> 0, panic |-> FALSE]
      ELSE IF Len(f.value) # 14
      THEN [v |-> Int64Zero, has |-> FALSE, handled |-> 1, panic |-> FALSE]
      ELSE IF p.err
      THEN [v |-> Int64Zero, has |-> FALSE, handled |-> 1, panic |-> FALSE]
      ELSE [v |-> p.v, has |-> TRUE, handled |-> 0, panic |-> FALSE]

\* tracestateHasThreshold
tracestateHasThreshold(otts) ==
  LET f == tracestateHasOTelField(otts, thresholdSearchKey)
      p == ParseUint(f.value)
  IN  IF f.panic
      THEN [v |-> Int64Zero, has |-> FALSE, handled |-> 0, panic |-> TRUE]
      ELSE IF ~f.has
      THEN [v |-> Int64Zero, has |-> FALSE, handled |-> 0, panic |-> FALSE]
      ELSE IF Len(f.value) = 0 \/ Len(f.value) > 14
      THEN [v |-> Int64Zero, has |-> FALSE, handled |-> 1, panic |-> FALSE]
      ELSE IF p.err
      THEN [v |-> Int64Zero, has |-> FALSE, handled |-> 1, panic |-> FALSE]
      ELSE [v |-> ShiftLeftDigits(p.v, 14 - Len(f.value)), has |-> TRUE,
            handled |-> 0, panic |-> FALSE]

\* the loop of combineTracestate: the fragment copied without its th pairs.
\* In the branch of the final pair `incoming` is emptied before it is
\* assigned to toWrite.
RECURSIVE combineLoop(_, _)
combineLoop(incoming, out) ==
  IF Len(incoming) = 0 THEN [corrupt |-> FALSE, out |-> out]
  ELSE
    LET cpos == IndexByte(incoming, ":")
    IN  IF cpos < 0 THEN [corrupt |-> TRUE, out |-> out]
        ELSE
          LET thisKey == SubSeq(incoming, 1, cpos)
              spos    == IndexByte(SubSeq(incoming, cpos + 2, Len(incoming)), ";")
              split   == cpos + spos + 1
              toWrite == IF spos < 0 THEN "" ELSE SubSeq(incoming, 1, split)
              rest    == IF spos < 0 THEN ""
                         ELSE SubSeq(incoming, split + 2, Len(incoming))
          IN  IF thisKey = "th" THEN combineLoop(rest, out)
              ELSE combineLoop(rest,
                     (IF Len(out) # 0 THEN out \o ";" ELSE out) \o toWrite)

\* the th entry appended by combineTracestate when updateThreshold >= 0
thresholdEntry(out, updateThreshold) ==
  (IF Len(out) # 0 THEN out \o ";th:" ELSE "th:")
    \o (IF updateThreshold = Int64Zero THEN "0" ELSE "")
    \o TrimRightZeros(FormatUint(updateThreshold))

\* a combineTracestate that replaces a corrupt fragment by the new th alone
combineTracestateReplacing(original, updateThreshold) ==
  IF TsLen(original) = 0 /\ Lt(updateThreshold, Int64Zero)
  THEN [ts |-> original, handled |-> 0]
  ELSE
    LET loop == combineLoop(TsGet(original, "ot"), "")
        out  == IF Leq(Int64Zero, updateThreshold)
                THEN thresholdEntry(IF loop.corrupt THEN "" ELSE loop.out,
                                    updateThreshold)
                ELSE loop.out
        ins  == TsInsert(original, "ot", out)
    IN  [ts |-> ins.ts,
         handled |-> IF loop.corrupt \/ ins.err THEN 1 ELSE 0]

\* combineTracestate(original, updateThreshold): the returned trace state
\* and the number of otel.Handle calls
combineTracestate(original, updateThreshold) ==
  IF TsLen(original) = 0 /\ Lt(updateThreshold, Int64Zero)
  THEN [ts |-> original, handled |-> 0]
  ELSE
    LET loop == combineLoop(TsGet(original, "ot"), "")
        out  == IF Leq(Int64Zero, updateThreshold)
                THEN thresholdEntry(loop.out, updateThreshold)
                ELSE loop.out
        ins  == TsInsert(original, "ot", out)
    IN  IF loop.corrupt
        THEN [ts |-> TsDelete(original, "ot"), handled |-> 1]
        ELSE [ts |-> ins.ts, handled |-> IF ins.err THEN 1 ELSE 0]

----------------------------------------------------------------------------
(* thresholds and randomness *)

\* maxAdjustedCount = 1 << 56
maxAdjustedCount == [i \in 1..Int64Digits |-> IF i = Int64Digits - maxp THEN 1 ELSE 0]

\* "0" means always sampled
ALWAYS_SAMPLE_THRESHOLD == Int64Zero

\* this threshold never samples
NEVER_SAMPLE_THRESHOLD == maxAdjustedCount

\* sampled, but no threshold is known: a negative value
INVALID_THRESHOLD == [i \in 1..Int64Digits |-> IF i = 1 THEN -1 ELSE 15]

\* v & randomnessMask, randomnessMask = maxAdjustedCount - 1
MaskRandomness(v) ==
  [i \in 1..Int64Digits |-> IF i <= Int64Digits - maxp THEN 0 ELSE v[i] % 16]

\* binary.BigEndian.Uint64(b[8:16]) of a 16-byte trace identifier
BigEndianUint64Low(traceID) ==
  [i \in 1..Int64Digits |->
     IF i % 2 = 1 THEN traceID[8 + (i + 1) \div 2] \div 16
     ELSE traceID[8 + i \div 2] % 16]

\* the randomness of a trace identifier: its least-significant 56 bits
TraceIDRandomness(traceID) == MaskRandomness(BigEndianUint64Low(traceID))

\* a + d * 16^(Int64Digits - pos), with carry, modulo 2^64
RECURSIVE AddAt(_, _, _)
AddAt(a, pos, d) ==
  IF pos < 1 \/ d = 0 THEN a
  ELSE LET sum == (a[pos] % 16) + d
       IN  AddAt([a EXCEPT ![pos] = sum % 16], pos - 1, sum \div 16)

\* a - b of two unsigned values, with borrow, modulo 2^64
RECURSIVE SubFrom(_, _, _, _)
SubFrom(a, b, pos, borrow) ==
  IF pos < 1 THEN a
  ELSE LET diff == a[pos] - b[pos] - borrow
       IN  SubFrom([a EXCEPT ![pos] = diff % 16], b, pos - 1,
                   IF diff < 0 THEN 1 ELSE 0)

Sub(a, b) == SubFrom(a, b, Int64Digits, 0)

\* the number of bits of an unsigned value (0 for zero)
BitLen(v) ==
  LET f == FirstNonZero(v, 1)
      d == IF f > Int64Digits THEN 0 ELSE v[f]
  IN  IF f > Int64Digits THEN 0
      ELSE hbits * (Int64Digits - f)
             + (IF d >= 8 THEN 4 ELSE IF d >= 4 THEN 3 ELSE IF d >= 2 THEN 2 ELSE 1)

----------------------------------------------------------------------------
(* sampler.go: predicates and composable samplers *)

Drop == "Drop"
RecordOnly == "RecordOnly"
ExportOnly == "ExportOnly"
RecordAndSample == "RecordAndSample"

\* a nil AttributesFunc / TraceStateFunc
NilAttributes == [nil |-> TRUE, calls |-> << >>]
NilTraceState == [nil |-> TRUE, ts |-> EmptyTraceState]

\* an AttributesFunc that is one producer: calling it calls that producer
AttributesOf(name) == [nil |-> FALSE, calls |-> << name >>]

\* a TraceStateFunc returning ts
TraceStateOf(ts) == [nil |-> FALSE, ts |-> ts]

\* a slip of the order: the attributes of two come first
combineAttributesFuncTwoFirst(one, two) ==
  [nil |-> FALSE,
   calls |-> (IF two.nil THEN << >> ELSE two.calls)
               \o (IF one.nil THEN << >> ELSE one.calls)]

\* combineAttributesFunc(one, two): a closure (never nil) that calls the
\* non-nil ones of one and two, in this order, and appends the results
combineAttributesFunc(one, two) ==
  [nil |-> FALSE,
   calls |-> (IF one.nil THEN << >> ELSE one.calls)
               \o (IF two.nil THEN << >> ELSE two.calls)]

\* the predicates: TruePredicate(), IsRootPredicate(), SpanNamePredicate(name)
TruePredicate == [kind |-> "true", name |-> ""]
IsRootPredicate == [kind |-> "root?", name |-> ""]
SpanNamePredicate(name) == [kind |-> "Span.Name==", name |-> name]

\* Predicate.Decide(params)
Decide(pred, params) ==
  CASE pred.kind = "true" -> TRUE
    [] pred.kind = "root?" -> ~params.ParentSpanContext.Valid
    [] pred.kind = "Span.Name==" -> params.Name = pred.name

\* a SamplingIntent with only its threshold set
ThresholdIntent(threshold) ==
  [Record |-> FALSE, Export |-> FALSE, Threshold |-> threshold,
   Attributes |-> NilAttributes, TraceState |-> NilTraceState]

\* ComposableAlwaysSample(), ComposableNeverSample(), ParentThreshold()
ComposableAlwaysSample == [kind |-> "AlwaysOn"]
ComposableNeverSample == [kind |-> "AlwaysOff"]
ParentThreshold == [kind |-> "ParentThreshold"]

\* TraceIDRatioBased(fraction), the fraction given as the 64-bit integer
\* fraction * 2^56 (a dyadic fraction, for which the product and
\* math.Round are exact)
maxSupportedScaled ==
  [i \in 1..Int64Digits |->
     IF i <= Int64Digits - maxp \/ i = Int64Digits THEN 0 ELSE 15]

minSupportedScaled == [i \in 1..Int64Digits |-> IF i = Int64Digits THEN 1 ELSE 0]

\* a slip: the default precision whatever the fraction
RatioPrecisionDefault(scaled) == defaultSamplingPrecision

RatioPrecision(scaled) ==
  LET expF == BitLen(scaled) - hbits * maxp
      p    == defaultSamplingPrecision + ((0 - expF) \div hbits)
  IN  IF p < maxp THEN p ELSE maxp

\* a slip of the rounding: the low digits are cut off, no half is added
RatioThresholdTruncated(scaled) ==
  LET threshold == Sub(maxAdjustedCount, scaled)
      drop      == maxp - RatioPrecision(scaled)
  IN  [i \in 1..Int64Digits |-> IF i > Int64Digits - drop THEN 0 ELSE threshold[i]]

\* a slip: the acceptance count is rounded and stored, not the rejection
\* threshold
RatioThresholdOfAcceptance(scaled) ==
  LET drop    == maxp - RatioPrecision(scaled)
      rounded == AddAt(scaled, Int64Digits - drop + 1, 8)
  IN  IF drop # 0
      THEN [i \in 1..Int64Digits |->
              IF i > Int64Digits - drop THEN 0 ELSE rounded[i]]
      ELSE scaled

RatioThreshold(scaled) ==
  LET precision == RatioPrecision(scaled)
      threshold == Sub(maxAdjustedCount, scaled)
      drop      == maxp - precision
      rounded   == AddAt(threshold, Int64Digits - drop + 1, 8)
  IN  IF drop # 0
      THEN [i \in 1..Int64Digits |->
              IF i > Int64Digits - drop THEN 0 ELSE rounded[i]]
      ELSE threshold

TraceIDRatioBased(scaled) ==
  IF Lt(maxSupportedScaled, scaled) THEN ComposableAlwaysSample
  ELSE IF Lt(scaled, minSupportedScaled) THEN ComposableNeverSample
  ELSE [kind |-> "TraceIDRatioBased", threshold |-> RatioThreshold(scaled)]

\* RuleBased(options...): the rules in the order given, the default rule
\* (when there is one) appended with TruePredicate()
RuleBased(rules, hasDefault, defRule) ==
  [kind |-> "RuleBased",
   rules |-> IF hasDefault
             THEN Append(rules, [Predicate |-> TruePredicate,
                                 ComposableSampler |-> defRule])
             ELSE rules]

WithRule(pred, sampler) == [Predicate |-> pred, ComposableSampler |-> sampler]

\* ConsistentParentBased(root)
ConsistentParentBased(root) ==
  RuleBased(<< WithRule(IsRootPredicate, root) >>, TRUE, ParentThreshold)

\* a ComposableSampler that returns a given intent, whatever the parameters
IntentSampler(intent) == [kind |-> "Intent", intent |-> intent]

\* WithSampledAttributes(af) applied to the attributes of the configuration
WithSampledAttributes(attributes, af) == combineAttributesFunc(attributes, af)

\* the configuration's attributes after the options, applied in the order
\* given, the first to the nil attributes of the zero annotatingConfig
RECURSIVE annotatingConfig(_)
annotatingConfig(options) ==
  IF Len(options) = 0 THEN NilAttributes
  ELSE WithSampledAttributes(
         annotatingConfig(SubSeq(options, 1, Len(options) - 1)),
         options[Len(options)])

\* &annotatingSampler{sampler, attributes}
annotatingSampler(sampler, attributes) ==
  [kind |-> "Annotating", sampler |-> sampler, attributes |-> attributes]

\* AnnotatingSampler(sampler, options...), an option being the AttributesFunc
\* given to WithSampledAttributes
AnnotatingSampler(sampler, options) ==
  annotatingSampler(sampler, annotatingConfig(options))

\* annotatingSampler.GetSamplingIntent, given the intent of the inner sampler
annotatingIntent(intent, attributes) ==
  [intent EXCEPT !.Attributes = combineAttributesFunc(intent.Attributes, attributes)]

\* ComposableSampler.GetSamplingIntent(params)
RECURSIVE GetSamplingIntent(_, _)
RECURSIVE ruleBasedIntent(_, _, _)

ruleBasedIntent(rules, i, params) ==
  IF i > Len(rules) THEN ThresholdIntent(NEVER_SAMPLE_THRESHOLD)
  ELSE IF Decide(rules[i].Predicate, params)
  THEN GetSamplingIntent(rules[i].ComposableSampler, params)
  ELSE ruleBasedIntent(rules, i + 1, params)

GetSamplingIntent(s, params) ==
  CASE s.kind = "AlwaysOn" -> ThresholdIntent(ALWAYS_SAMPLE_THRESHOLD)
    [] s.kind = "AlwaysOff" -> ThresholdIntent(NEVER_SAMPLE_THRESHOLD)
    [] s.kind = "TraceIDRatioBased" -> ThresholdIntent(s.threshold)
    [] s.kind = "ParentThreshold" -> ThresholdIntent(params.parentThreshold)
    [] s.kind = "RuleBased" -> ruleBasedIntent(s.rules, 1, params)
    [] s.kind = "Intent" -> s.intent
    [] s.kind = "Annotating" ->
         annotatingIntent(GetSamplingIntent(s.sampler, params), s.attributes)

----------------------------------------------------------------------------
(* sampler.go: CompositeSampler *)

\* trace.SpanContextFromContext(ctx): the span context the context carries,
\* the zero SpanContext when it carries none
NoSpanContext == [Valid |-> FALSE, Sampled |-> FALSE, TraceState |-> EmptyTraceState]

SpanContextFromContext(ctx) == IF ctx.hasSpan THEN ctx.span ELSE NoSpanContext

\* what a call that panicked leaves behind: no SamplingResult, and the
\* runtime error it ended with
SliceBoundsOutOfRange == "slice bounds out of range"
NilFuncCall == "invalid memory address or nil pointer dereference"

PanicResult(cause, handled, tsCalls, threshold, rnd, intent) ==
  [panicked |-> TRUE, cause |-> cause, Decision |-> "none",
   Attributes |-> << >>, Tracestate |-> EmptyTraceState,
   parseErrors |-> handled, handled |-> handled,
   attrCalls |-> 0, tsCalls |-> tsCalls,
   combined |-> FALSE, threshold |-> threshold, rnd |-> rnd, intent |-> intent]

\* a slip of the comparison: the helper compares as the decision does
WouldSampleAsDecided(in, cparams) == Leq(in.Threshold, cparams.randomnessValue)

\* SamplingIntent.WouldSample(params)
WouldSample(in, cparams) == Lt(in.Threshold, cparams.randomnessValue)

\* the switch that sets `sampled`
IsSampled(intentThreshold, rnd) ==
  IF intentThreshold = NEVER_SAMPLE_THRESHOLD THEN FALSE
  ELSE IF Leq(intentThreshold, ALWAYS_SAMPLE_THRESHOLD) THEN TRUE
  ELSE Leq(intentThreshold, rnd)

\* a slip of the comparison: the trace state is rewritten on every sampled
\* or export-only decision
NeedsCombineAlways(intentThreshold, threshold) == TRUE

\* the condition under which the sampled and the export-only branch call
\* combineTracestate
NeedsCombine(intentThreshold, threshold) == intentThreshold # threshold

\* the trace state ShouldSample starts from: the intent's, when it has a
\* producer, else the parent's
BaseTracestate(intent, psc) ==
  IF ~intent.TraceState.nil THEN intent.TraceState.ts ELSE psc.TraceState

\* the number of calls of intent.TraceState in one ShouldSample
TraceStateCalls(intent) == IF ~intent.TraceState.nil THEN 1 ELSE 0

\* the branch the second switch of ShouldSample takes
Branch(intent, sampled) ==
  IF sampled THEN RecordAndSample
  ELSE IF intent.Export THEN ExportOnly
  ELSE IF intent.Record THEN RecordOnly
  ELSE Drop

\* a slip: the attributes are produced ahead of the switch, for every branch
CallsAttributesInEveryBranch(intent, branch) == ~intent.Attributes.nil

\* whether the branch calls intent.Attributes: the sampled and the
\* export-only branch call it when it is not nil, the record-only branch
\* calls it unchecked, the default branch does not
CallsAttributes(intent, branch) ==
  branch # Drop /\ ~intent.Attributes.nil

\* the second switch of ShouldSample: decision, attributes, trace state.
\* The record-only branch calls intent.Attributes without a nil check.
Decision(intent, sampled, threshold, base) ==
  LET branch == Branch(intent, sampled)
      called == CallsAttributes(intent, branch)
      doComb == /\ branch \in { RecordAndSample, ExportOnly }
                /\ NeedsCombine(intent.Threshold, threshold)
      comb   == combineTracestate(base, intent.Threshold)
  IN  IF branch = RecordOnly /\ intent.Attributes.nil
      THEN [panicked |-> TRUE, Decision |-> "none", Attributes |-> << >>,
            attrCalls |-> 0, Tracestate |-> EmptyTraceState, handled |-> 0,
            combined |-> FALSE]
      ELSE [panicked |-> FALSE, Decision |-> branch,
            Attributes |-> IF called THEN intent.Attributes.calls ELSE << >>,
            attrCalls |-> IF called THEN 1 ELSE 0,
            Tracestate |-> IF doComb THEN comb.ts ELSE base,
            handled |-> IF doComb THEN comb.handled ELSE 0,
            combined |-> doComb]

\* compositeSampler.ShouldSample(params): the SamplingResult (Decision,
\* Attributes, Tracestate) or a panic, with what the call did on the way:
\* the number of otel.Handle calls, the calls of the intent's producers,
\* the inherited threshold, the randomness and the intent it decided with
ShouldSample(sampler, params) ==
  LET psc  == SpanContextFromContext(params.ParentContext)
      otts == TsGet(psc.TraceState, "ot")
      th   == tracestateHasThreshold(otts)
      threshold == IF th.has THEN th.v
                   ELSE IF psc.Sampled THEN INVALID_THRESHOLD
                   ELSE NEVER_SAMPLE_THRESHOLD
      rv   == IF otts # "" THEN tracestateHasRandomness(otts)
              ELSE [v |-> Int64Zero, has |-> FALSE, handled |-> 0, panic |-> FALSE]
      rnd  == IF rv.has THEN rv.v ELSE TraceIDRandomness(params.TraceID)
      intent == GetSamplingIntent(sampler,
                  [Name |-> params.Name, TraceID |-> params.TraceID,
                   ParentSpanContext |-> psc, parentThreshold |-> threshold,
                   randomnessValue |-> rnd])
      sampled == IsSampled(intent.Threshold, rnd)
      base == BaseTracestate(intent, psc)
      d    == Decision(intent, sampled, threshold, base)
      none == ThresholdIntent(Int64Zero)
  IN  IF th.panic
      THEN PanicResult(SliceBoundsOutOfRange, 0, 0, Int64Zero, Int64Zero, none)
      ELSE IF rv.panic
      THEN PanicResult(SliceBoundsOutOfRange, th.handled, 0, threshold,
                       Int64Zero, none)
      ELSE IF d.panicked
      THEN PanicResult(NilFuncCall, th.handled + rv.handled,
                       TraceStateCalls(intent), threshold, rnd, intent)
      ELSE [panicked |-> FALSE, cause |-> "", Decision |-> d.Decision,
            Attributes |-> d.Attributes, Tracestate |-> d.Tracestate,
            parseErrors |-> th.handled + rv.handled,
            handled |-> th.handled + rv.handled + d.handled,
            attrCalls |-> d.attrCalls,
            tsCalls |-> TraceStateCalls(intent), combined |-> d.combined,
            threshold |-> threshold, rnd |-> rnd, intent |-> intent]

\* CompositeSampler(s)
CompositeSampler(s) == [kind |-> "Composite", sampler |-> s]

\* AlwaysSample(): alwaysOn{}, a Sampler that is not a composite
AlwaysSample == [kind |-> "alwaysOn"]

\* NeverSample()
NeverSample == CompositeSampler(ComposableNeverSample)

\* alwaysOn.ShouldSample(params)
alwaysOnShouldSample(params) ==
  [panicked |-> FALSE, Decision |-> RecordAndSample, Attributes |-> << >>,
   Tracestate |-> SpanContextFromContext(params.ParentContext).TraceState]

\* Sampler.ShouldSample(params), as the caller sees it: the SamplingResult,
\* or the panic
SamplingResult(r) ==
  [panicked |-> r.panicked, Decision |-> r.Decision,
   Attributes |-> r.Attributes, Tracestate |-> r.Tracestate]

SamplerShouldSample(s, params) ==
  IF s.kind = "alwaysOn" THEN alwaysOnShouldSample(params)
  ELSE SamplingResult(ShouldSample(s.sampler, params))

----------------------------------------------------------------------------
(* Description *)

\* Predicate.Description()
PredicateDescription(pred) == pred.kind \o pred.name

\* a slip: the elements are joined without the separator
RECURSIVE JoinWithoutSeparator(_, _)
JoinWithoutSeparator(elems, sep) ==
  IF Len(elems) = 0 THEN ""
  ELSE elems[1] \o JoinWithoutSeparator(Tail(elems), sep)

\* strings.Join(desc, ",")
RECURSIVE Join(_, _)
Join(elems, sep) ==
  IF Len(elems) = 0 THEN ""
  ELSE IF Len(elems) = 1 THEN elems[1]
  ELSE elems[1] \o sep \o Join(Tail(elems), sep)

\* Description() of a ComposableSampler, and of a Sampler
RECURSIVE Description(_)
Description(s) ==
  CASE s.kind = "AlwaysOn" -> "AlwaysOn"
    [] s.kind = "alwaysOn" -> "AlwaysOn"
    [] s.kind = "AlwaysOff" -> "AlwaysOff"
    [] s.kind = "ParentThreshold" -> "ParentThreshold"
    [] s.kind = "RuleBased" ->
         "RuleBased{"
           \o Join([i \in 1..Len(s.rules) |->
                      "rule(" \o PredicateDescription(s.rules[i].Predicate)
                        \o ")=" \o Description(s.rules[i].ComposableSampler)],
                   ",")
           \o "}"
    [] s.kind = "Annotating" -> "Annotating(" \o Description(s.sampler) \o ")"
    [] s.kind = "Composite" -> Description(s.sampler)

----------------------------------------------------------------------------
(* optimize.go *)

RECURSIVE optimize2(_)

\* an Optimize that forgets the attributes of the annotating sampler
annotatingOptimizeWithoutAttributes(as) ==
  annotatingSampler(optimize2(as.sampler), NilAttributes)

\* annotatingSampler.Optimize(res, scope)
annotatingOptimize(as) ==
  annotatingSampler(optimize2(as.sampler), as.attributes)

\* ruleBased.Optimize(res, scope)
ruleBasedOptimize(rb) ==
  [kind |-> "RuleBased",
   rules |-> [i \in 1..Len(rb.rules) |->
                [Predicate |-> rb.rules[i].Predicate,
                 ComposableSampler |-> optimize2(rb.rules[i].ComposableSampler)]]]

\* optimize2(s, res, scope): the samplers with an Optimize method are the
\* annotating and the rule-based one; the resource and the scope are read
\* by no Optimize
optimize2(s) ==
  CASE s.kind = "Annotating" -> annotatingOptimize(s)
    [] s.kind = "RuleBased" -> ruleBasedOptimize(s)
    [] OTHER -> s

\* compositeSampler.Optimize(res, scope)
compositeOptimize(cs) == CompositeSampler(optimize2(cs.sampler))

\* optimize1(s, res, scope)
optimize1(s) == IF s.kind = "Composite" THEN compositeOptimize(s) ELSE s

----------------------------------------------------------------------------
(* the inputs of the model *)

\* the number of sub-fields of a parent's ot fragment
MaxFields == 2

\* the number of decisions along one trace: a span, its child, ...
MaxHops == 2

\* sub-fields a parent's fragment is made of: th and rv, well-formed and
\* malformed, a foreign pair, and a key without ':'
FieldPool ==
  { "th:8", "th:zz", "rv:c0000000000000", "rv:abc", "xx:abc", "yy" }

RECURSIVE FragmentsOfLen(_)
FragmentsOfLen(n) ==
  IF n = 0 THEN { "" }
  ELSE { IF p = "" THEN f ELSE p \o ";" \o f :
           p \in FragmentsOfLen(n - 1), f \in FieldPool }

Fragments == UNION { FragmentsOfLen(n) : n \in 0..MaxFields }

\* a parent's trace state: no ot member, or an ot member alone or after a
\* member of another vendor
OtMember(f) == [Key |-> "ot", Value |-> f]
CoMember == [Key |-> "co", Value |-> "whateverr"]

\* a fragment without th whose rv stands between two other sub-fields
RvInTheMiddle == "xx:abc;rv:abc;xx:abc"

TraceStates ==
  { EmptyTraceState, << CoMember >>, << OtMember(RvInTheMiddle) >> }
    \cup { << OtMember(f) >> : f \in Fragments \ { "" } }
    \cup { << CoMember, OtMember(f) >> : f \in Fragments \ { "" } }

\* 16-byte trace identifiers: randomness 0x80000000000000 (the top byte of
\* the low 8 bytes is masked off) and 0x10000000000000
TraceIDs ==
  { [i \in 1..16 |-> IF i = 9 THEN 255 ELSE IF i = 10 THEN 128 ELSE 0],
    [i \in 1..16 |-> IF i = 10 THEN 16 ELSE IF i = 1 THEN 1 ELSE 0] }

ParentContexts ==
  { [hasSpan |-> FALSE, span |-> NoSpanContext] }
    \cup { [hasSpan |-> TRUE,
            span |-> [Valid |-> TRUE, Sampled |-> sm, TraceState |-> ts]] :
             sm \in BOOLEAN, ts \in TraceStates }

Params ==
  { [ParentContext |-> ctx, TraceID |-> id, Name |-> "test"] :
      ctx \in ParentContexts, id \in TraceIDs }

\* fraction * 2^56 for the fractions 1/2, 1/4 and 31/32
Fractions ==
  { ParseUint("80000000000000").v, ParseUint("40000000000000").v,
    ParseUint("f8000000000000").v }

\* thresholds an intent may carry
IntentThresholds ==
  { INVALID_THRESHOLD, ALWAYS_SAMPLE_THRESHOLD,
    ParseUint("80000000000000").v, NEVER_SAMPLE_THRESHOLD }

\* the trace state an intent's producer returns
ProducedTraceState == << [Key |-> "ot", Value |-> "rv:40000000000000"] >>

Intents ==
  { [Record |-> r, Export |-> e, Threshold |-> t, Attributes |-> a,
     TraceState |-> p] :
      r \in BOOLEAN, e \in BOOLEAN, t \in IntentThresholds,
      a \in { NilAttributes, AttributesOf("K") },
      p \in { NilTraceState, TraceStateOf(ProducedTraceState) } }

RootSamplers ==
  { TraceIDRatioBased(f) : f \in Fractions } \cup { ComposableAlwaysSample }

ComposableSamplers ==
  RootSamplers
    \cup { ConsistentParentBased(r) : r \in RootSamplers }
    \cup { ComposableNeverSample, ParentThreshold }
    \cup { IntentSampler(in) : in \in Intents }

Samplers == { CompositeSampler(s) : s \in ComposableSamplers }

----------------------------------------------------------------------------
(* the state machine: the decisions along one trace *)

VARIABLES
  sampler,  \* the Sampler of the service that starts the span
  params,   \* the SamplingParameters of the span being started
  pc,       \* "call": ShouldSample is about to run; "returned"; "panic"
  result,   \* what the last ShouldSample call returned and did
  trail,    \* the calls along the trace so far: sampler, params, result
  op,       \* a single call of one function of the package: name, arguments
  ret,      \* what that call returned, once it has
  heap,     \* the memory goroutines share: the backing array of the slice a
            \* shared attributes producer returns, or the lazy cells of a call
  procs     \* the goroutines: calling ShouldSample on one shared sampler, or
            \* reading the lazy cells of one call

vars == << sampler, params, pc, result, trail, op, ret, heap, procs >>

NoResult ==
  [PanicResult("", 0, 0, Int64Zero, Int64Zero, ThresholdIntent(Int64Zero))
     EXCEPT !.panicked = FALSE]

\* no single call is made
NoCall == [name |-> "none"]
NoReturn == [done |-> FALSE]

Init ==
  /\ sampler \in Samplers
  /\ params \in Params
  /\ pc = "call"
  /\ result = NoResult
  /\ trail = << >>
  /\ op = NoCall
  /\ ret = NoReturn
  /\ heap = << >>
  /\ procs = << >>

\* Sampler.ShouldSample(params)
CallShouldSample ==
  /\ pc = "call"
  /\ result' = ShouldSample(sampler.sampler, params)
  /\ pc' = IF result'.panicked THEN "panic" ELSE "returned"
  /\ trail' = Append(trail, [sampler |-> sampler, params |-> params,
                             result |-> result'])
  /\ UNCHANGED << sampler, params, op, ret, heap, procs >>

\* the span is started with the decision returned and a child span is
\* started in its context: the child's parent span context carries the
\* returned trace state, and the sampled flag iff the decision was
\* RecordAndSample; the trace identifier is inherited
StartChild ==
  /\ pc = "returned"
  /\ Len(trail) < MaxHops
  /\ params' = [ParentContext |->
                  [hasSpan |-> TRUE,
                   span |-> [Valid |-> TRUE,
                             Sampled |-> result.Decision = RecordAndSample,
                             TraceState |-> result.Tracestate]],
                TraceID |-> params.TraceID, Name |-> params.Name]
  /\ pc' = "call"
  /\ UNCHANGED << sampler, result, trail, op, ret, heap, procs >>

Next == CallShouldSample \/ StartChild

Spec == Init /\ [][Next]_vars

----------------------------------------------------------------------------
(* single calls of the functions of the package *)

\* the number of rules of a rule-based sampler, the default rule apart
MaxRules == 2

\* the number of options of an annotating sampler
MaxOptions == 2

SpanNames == { "/healthcheck", "/other" }

\* the ComposableSamplingParameters a rule-based sampler is called with
DispatchParams ==
  { [Name |-> n, TraceID |-> CHOOSE id \in TraceIDs : TRUE,
     ParentSpanContext |-> psc, parentThreshold |-> t,
     randomnessValue |-> ParseUint("10000000000000").v] :
      n \in SpanNames,
      psc \in { NoSpanContext,
                [Valid |-> TRUE, Sampled |-> TRUE, TraceState |-> EmptyTraceState] },
      t \in { INVALID_THRESHOLD, ParseUint("80000000000000").v } }

\* the rules of a rule-based sampler
DispatchPredicates ==
  { SpanNamePredicate("/healthcheck"), IsRootPredicate, TruePredicate }

DispatchLeaves ==
  { ComposableAlwaysSample, ComposableNeverSample, ParentThreshold }

DispatchRules ==
  { WithRule(pred, s) : pred \in DispatchPredicates, s \in DispatchLeaves }

RECURSIVE RuleLists(_)
RuleLists(n) ==
  IF n = 0 THEN { << >> }
  ELSE RuleLists(n - 1)
         \cup { Append(rs, r) : rs \in RuleLists(n - 1), r \in DispatchRules }

\* the calls of GetSamplingIntent on RuleBased(rules..., [default])
RuleBasedCalls ==
  { [name |-> "ruleBased.GetSamplingIntent", rules |-> rs, hasDefault |-> hd,
     defRule |-> d, params |-> p] :
      rs \in RuleLists(MaxRules), hd \in BOOLEAN, d \in DispatchLeaves,
      p \in DispatchParams }

\* the SamplingParameters of a ShouldSample call: a name, a parent context,
\* a trace identifier
NamedParams ==
  { [ParentContext |-> ctx, TraceID |-> id, Name |-> n] :
      ctx \in ParentContexts, id \in TraceIDs, n \in SpanNames }

\* RuleBased(rule(name==/healthcheck -> NeverSample), default -> AlwaysSample)
HealthcheckSampler ==
  RuleBased(<< WithRule(SpanNamePredicate("/healthcheck"), ComposableNeverSample) >>,
            TRUE, ComposableAlwaysSample)

\* the samplers ShouldSample is called on
CalledSamplers ==
  { AlwaysSample, NeverSample, CompositeSampler(ComposableAlwaysSample),
    CompositeSampler(HealthcheckSampler),
    CompositeSampler(ConsistentParentBased(ComposableAlwaysSample)) }

ShouldSampleCalls ==
  { [name |-> "ShouldSample", sampler |-> s, params |-> p] :
      s \in CalledSamplers, p \in NamedParams }

\* the options of an annotating sampler: WithSampledAttributes(af), af nil
\* or a producer
AnnotatingOptions == { NilAttributes, AttributesOf("A"), AttributesOf("B") }

RECURSIVE OptionLists(_)
OptionLists(n) ==
  IF n = 0 THEN { << >> }
  ELSE OptionLists(n - 1)
         \cup { Append(os, o) : os \in OptionLists(n - 1), o \in AnnotatingOptions }

\* an intent with both flags, a threshold and both producers
FullIntent ==
  [Record |-> TRUE, Export |-> TRUE, Threshold |-> ParseUint("80000000000000").v,
   Attributes |-> AttributesOf("K"),
   TraceState |-> TraceStateOf(ProducedTraceState)]

\* the samplers an annotating sampler wraps
AnnotatedSamplers ==
  { ComposableAlwaysSample, ParentThreshold, IntentSampler(FullIntent),
    IntentSampler([FullIntent EXCEPT !.Export = FALSE,
                                     !.TraceState = NilTraceState]),
    AnnotatingSampler(ComposableNeverSample, << AttributesOf("C") >>),
    HealthcheckSampler }

AnnotatingCalls ==
  { [name |-> "annotatingSampler.GetSamplingIntent", sampler |-> s,
     options |-> os, params |-> p] :
      s \in AnnotatedSamplers, os \in OptionLists(MaxOptions),
      p \in DispatchParams }

\* fractions, as fraction * 2^56: after z zero digits a leading digit, and
\* then zeros, or one more digit x further down, or a run of f digits; and
\* the fractions 0, 1 and 1 - 2^-53.  Each has at most 53 significant bits.
RatioDigits(z, lead, j, x) ==
  [i \in 1..Int64Digits |->
     IF i = Int64Digits - maxp + z + 1 THEN lead
     ELSE IF j > 0 /\ i = Int64Digits - maxp + z + 1 + j THEN x
     ELSE 0]

RatioRun(z, r) ==
  [i \in 1..Int64Digits |->
     IF i > Int64Digits - maxp + z /\ i <= Int64Digits - maxp + z + r THEN 15
     ELSE 0]

RatioInputs ==
  { RatioDigits(z, lead, j, x) :
      z \in 0..(maxp - 1), lead \in { 1, 8, 15 }, j \in 0..(maxp - 2),
      x \in { 7, 8 } }
    \cup { RatioRun(z, r) : z \in 0..(maxp - 1), r \in 1..(maxp - 1) }
    \cup { Int64Zero, maxAdjustedCount,
           [i \in 1..Int64Digits |->
              IF i <= Int64Digits - maxp THEN 0
              ELSE IF i = Int64Digits THEN 8 ELSE 15] }

RatioCalls == { [name |-> "TraceIDRatioBased", scaled |-> k] : k \in RatioInputs }

\* the depth of the sampler trees Optimize is called on
MaxDepth == 2

\* sampler trees: leaves, annotating samplers and rule-based samplers of
\* smaller trees
RECURSIVE SamplerTrees(_)
SamplerTrees(n) ==
  IF n = 0 THEN DispatchLeaves
  ELSE LET smaller == SamplerTrees(n - 1)
       IN  smaller
             \cup { AnnotatingSampler(t, os) :
                      t \in smaller,
                      os \in { << AttributesOf("A") >>,
                               << AttributesOf("A"), AttributesOf("B") >> } }
             \cup { RuleBased(<< WithRule(pred, t) >>, hd, ParentThreshold) :
                      pred \in { SpanNamePredicate("/healthcheck"), IsRootPredicate },
                      t \in smaller, hd \in BOOLEAN }

OptimizeCalls ==
  { [name |-> "Optimize", sampler |-> s] :
      s \in { AlwaysSample }
              \cup { CompositeSampler(t) : t \in SamplerTrees(MaxDepth) } }

\* the parameters the optimized sampler is compared on: root spans and
\* children of a sampled and of an unsampled parent, the parent's fragment
\* empty, with th last and with th before another sub-field
OptimizeParams ==
  { p \in NamedParams :
      /\ p.TraceID = CHOOSE id \in TraceIDs : TRUE
      /\ p.ParentContext.hasSpan =>
           p.ParentContext.span.TraceState
             \in { EmptyTraceState, << OtMember("th:8") >>,
                   << OtMember("th:8;xx:abc") >>, << OtMember("xx:abc;th:8") >> } }

\* thresholds in [0, 2^56): 0, and after z zero digits a leading digit, and
\* then zeros, or one more digit further down, or a run of f digits
ThresholdInputs == { t \in RatioInputs : Lt(t, maxAdjustedCount) }

\* the trace states combineTracestate rewrites: without an ot member, with
\* a th in it or not, and with a sub-field without ':', alone, last or first
RewrittenTraceStates ==
  { EmptyTraceState, << CoMember >>, << OtMember("th:4") >>,
    << CoMember, OtMember("rv:c0000000000000;th:8") >>,
    << OtMember("th:4;xx:abc") >>, << OtMember("yy") >>,
    << CoMember, OtMember("xx:abc;yy") >>, << OtMember("th:4;yy") >>,
    << OtMember("yy;xx:abc") >> }

CombineCalls ==
  { [name |-> "combineTracestate", original |-> ts, updateThreshold |-> t] :
      ts \in RewrittenTraceStates, t \in ThresholdInputs }

\* the calls of Description: on the samplers without rules, and on
\* RuleBased(rules..., [default]) alone or inside CompositeSampler
DescribedLeaves ==
  { AlwaysSample, NeverSample, ComposableAlwaysSample, ComposableNeverSample,
    ParentThreshold, CompositeSampler(ComposableAlwaysSample),
    CompositeSampler(ParentThreshold) }

DescriptionCalls ==
  { [name |-> "Description", rules |-> << >>, hasDefault |-> FALSE,
     defRule |-> ParentThreshold, composite |-> FALSE, sampler |-> s] :
      s \in DescribedLeaves }
  \cup
  { [name |-> "Description", rules |-> rs, hasDefault |-> hd, defRule |-> d,
     composite |-> c,
     sampler |-> IF c THEN CompositeSampler(RuleBased(rs, hd, d))
                 ELSE RuleBased(rs, hd, d)] :
      rs \in RuleLists(MaxRules), hd \in BOOLEAN, d \in DispatchLeaves,
      c \in BOOLEAN }

\* the calls of tracestateHasOTelField: every fragment, both search keys
LookupCalls ==
  { [name |-> "tracestateHasOTelField", otts |-> f, search |-> k] :
      f \in Fragments, k \in { randomnessSearchKey, thresholdSearchKey } }

\* the randomness of a call: 56 bits, of the trace identifier or of an rv
\* sub-field; 0, 1, 2^52, 2^55 and 2^56 - 1
RandomnessValues ==
  { Int64Zero, ParseUint("00000000000001").v, ParseUint("10000000000000").v,
    ParseUint("80000000000000").v, ParseUint("ffffffffffffff").v }

\* the thresholds of the intents WouldSample is asked on: those an intent
\* may carry, each value of the randomness, and their neighbours
WouldSampleThresholds ==
  IntentThresholds \cup RandomnessValues
    \cup { ParseUint("00000000000002").v, ParseUint("7fffffffffffff").v,
           ParseUint("80000000000001").v, ParseUint("fffffffffffffe").v }

\* the calls of WouldSample, with the parameters compositeSampler.ShouldSample
\* hands to GetSamplingIntent
WouldSampleCalls ==
  { [name |-> "WouldSample", intent |-> ThresholdIntent(t),
     params |-> [Name |-> "test", TraceID |-> CHOOSE id \in TraceIDs : TRUE,
                 ParentSpanContext |-> NoSpanContext,
                 parentThreshold |-> NEVER_SAMPLE_THRESHOLD,
                 randomnessValue |-> r]] :
      t \in WouldSampleThresholds, r \in RandomnessValues }

Calls ==
  RuleBasedCalls \cup ShouldSampleCalls \cup AnnotatingCalls \cup RatioCalls
    \cup OptimizeCalls \cup CombineCalls \cup DescriptionCalls
    \cup LookupCalls \cup WouldSampleCalls

InitCalls ==
  /\ op \in Calls
  /\ ret = NoReturn
  /\ sampler = CompositeSampler(ComposableAlwaysSample)
  /\ params = CHOOSE p \in Params : ~p.ParentContext.hasSpan
  /\ pc = "idle"
  /\ result = NoResult
  /\ trail = << >>
  /\ heap = << >>
  /\ procs = << >>

\* the calls the loop of ruleBased.GetSamplingIntent makes: rule.Decide for
\* the rules up to the first that matches, and GetSamplingIntent of that rule
RECURSIVE ruleBasedConsults(_, _, _)
ruleBasedConsults(rules, i, p) ==
  IF i > Len(rules) THEN [decided |-> << >>, asked |-> << >>]
  ELSE IF Decide(rules[i].Predicate, p)
  THEN [decided |-> << i >>, asked |-> << i >>]
  ELSE LET rest == ruleBasedConsults(rules, i + 1, p)
       IN  [decided |-> << i >> \o rest.decided, asked |-> rest.asked]

\* RuleBased(options...).GetSamplingIntent(params)
ApplyRuleBased ==
  /\ op.name = "ruleBased.GetSamplingIntent"
  /\ ~ret.done
  /\ LET rb == RuleBased(op.rules, op.hasDefault, op.defRule)
     IN  ret' = [done |-> TRUE, sampler |-> rb,
                 v |-> GetSamplingIntent(rb, op.params),
                 consults |-> ruleBasedConsults(rb.rules, 1, op.params)]
  /\ UNCHANGED << sampler, params, pc, result, trail, op, heap, procs >>

\* Sampler.ShouldSample(params)
ApplyShouldSample ==
  /\ op.name = "ShouldSample"
  /\ ~ret.done
  /\ ret' = [done |-> TRUE, v |-> SamplerShouldSample(op.sampler, op.params)]
  /\ UNCHANGED << sampler, params, pc, result, trail, op, heap, procs >>

\* AnnotatingSampler(sampler, options...).GetSamplingIntent(params)
ApplyAnnotating ==
  /\ op.name = "annotatingSampler.GetSamplingIntent"
  /\ ~ret.done
  /\ ret' = [done |-> TRUE,
             v |-> GetSamplingIntent(AnnotatingSampler(op.sampler, op.options),
                                     op.params)]
  /\ UNCHANGED << sampler, params, pc, result, trail, op, heap, procs >>

\* TraceIDRatioBased(fraction)
ApplyTraceIDRatioBased ==
  /\ op.name = "TraceIDRatioBased"
  /\ ~ret.done
  /\ ret' = [done |-> TRUE, v |-> TraceIDRatioBased(op.scaled)]
  /\ UNCHANGED << sampler, params, pc, result, trail, op, heap, procs >>

\* optimize1(s, res, scope)
ApplyOptimize ==
  /\ op.name = "Optimize"
  /\ ~ret.done
  /\ ret' = [done |-> TRUE, v |-> optimize1(op.sampler)]
  /\ UNCHANGED << sampler, params, pc, result, trail, op, heap, procs >>

\* combineTracestate(original, updateThreshold)
ApplyCombineTracestate ==
  /\ op.name = "combineTracestate"
  /\ ~ret.done
  /\ ret' = [done |-> TRUE,
             v |-> combineTracestate(op.original, op.updateThreshold).ts,
             handled |-> combineTracestate(op.original, op.updateThreshold).handled]
  /\ UNCHANGED << sampler, params, pc, result, trail, op, heap, procs >>

\* sampler.Description()
ApplyDescription ==
  /\ op.name = "Description"
  /\ ~ret.done
  /\ ret' = [done |-> TRUE, v |-> Description(op.sampler)]
  /\ UNCHANGED << sampler, params, pc, result, trail, op, heap, procs >>

\* tracestateHasOTelField(otts, search): (value, has), or the panic of the
\* slice expression
ApplyTracestateHasOTelField ==
  /\ op.name = "tracestateHasOTelField"
  /\ ~ret.done
  /\ ret' = [done |-> TRUE, v |-> tracestateHasOTelField(op.otts, op.search)]
  /\ UNCHANGED << sampler, params, pc, result, trail, op, heap, procs >>

\* intent.WouldSample(params), and beside it what the switch of ShouldSample
\* sets `sampled` to for the same intent and randomness
ApplyWouldSample ==
  /\ op.name = "WouldSample"
  /\ ~ret.done
  /\ ret' = [done |-> TRUE, v |-> WouldSample(op.intent, op.params),
             sampled |-> IsSampled(op.intent.Threshold,
                                   op.params.randomnessValue)]
  /\ UNCHANGED << sampler, params, pc, result, trail, op, heap, procs >>

NextCalls ==
  \/ ApplyWouldSample
  \/ ApplyTracestateHasOTelField
  \/ ApplyDescription
  \/ ApplyCombineTracestate
  \/ ApplyOptimize
  \/ ApplyRuleBased
  \/ ApplyShouldSample
  \/ ApplyAnnotating
  \/ ApplyTraceIDRatioBased

SpecCalls == InitCalls /\ [][NextCalls]_vars

----------------------------------------------------------------------------
(* concurrent ShouldSample calls on one shared sampler *)

\* the number of goroutines
MaxGoroutines == 2

Goroutines == 1..MaxGoroutines

\* A sampler shared by the goroutines: two rules, each an annotating
\* sampler with the sampled attributes of the producer P and of a producer
\* of its own.  P returns the same slice at every call, a slice of length 1;
\* Q1 and Q2 return a slice of length 1 each.
SharedSampler ==
  CompositeSampler(
    RuleBased(
      << WithRule(SpanNamePredicate("/healthcheck"),
                  AnnotatingSampler(ComposableAlwaysSample,
                                    << AttributesOf("P"), AttributesOf("Q1") >>)) >>,
      TRUE,
      AnnotatingSampler(ComposableAlwaysSample,
                        << AttributesOf("P"), AttributesOf("Q2") >>)))

\* the backing array of P's slice: its element, and no or one spare cell
\* (cap == len, as of a slice literal, or cap > len, as of a slice that was
\* made with capacity or grown by append)
SharedArrays == { << "P" >>, << "P", "" >> }

\* the parameters of the concurrent calls: root spans of either name
ConcurrentParams ==
  { p \in NamedParams :
      ~p.ParentContext.hasSpan /\ p.TraceID = CHOOSE id \in TraceIDs : TRUE }

\* a goroutine about to call ShouldSample(p)
Calling(p) ==
  [pc |-> "call", params |-> p, want |-> << >>, inPlace |-> FALSE,
   own |-> << >>, returned |-> NoReturn]

InitConcurrent ==
  /\ heap \in SharedArrays
  /\ procs \in [Goroutines -> { Calling(p) : p \in ConcurrentParams }]
  /\ sampler = SharedSampler
  /\ params = CHOOSE p \in Params : ~p.ParentContext.hasSpan
  /\ pc = "idle"
  /\ result = NoResult
  /\ trail = << >>
  /\ op = NoCall
  /\ ret = NoReturn

\* ShouldSample up to the second switch: the intent, the decision and the
\* trace state are computed from the parameters and the sampler alone; the
\* branch taken is about to call intent.Attributes
Decided(proc, r) ==
  [proc EXCEPT
     !.pc = IF r.panicked THEN "panic"
            ELSE IF Len(r.Attributes) = 0 THEN "return"
            ELSE "attributes",
     !.want = r.Attributes,
     !.returned = [done |-> FALSE, Decision |-> r.Decision,
                   Tracestate |-> r.Tracestate]]

Decides(g) ==
  /\ procs[g].pc = "call"
  /\ procs' = [procs EXCEPT
       ![g] = Decided(procs[g], SamplerShouldSample(sampler, procs[g].params))]
  /\ UNCHANGED << sampler, params, pc, result, trail, op, ret, heap >>

\* intent.Attributes(): combineAttributesFunc calls one(), which is P and
\* returns the shared slice, then two(), and evaluates append(one(),
\* two()...).  With spare capacity append will write into the array of
\* one(); without it, it allocates an array of the goroutine's own and
\* copies.
CallsProducers(g) ==
  /\ procs[g].pc = "attributes"
  /\ LET one == [len |-> 1, cap |-> Len(heap)]
         two == << procs[g].want[2] >>
     IN  IF one.cap >= one.len + Len(two)
         THEN procs' = [procs EXCEPT ![g].pc = "append", ![g].inPlace = TRUE]
         ELSE procs' = [procs EXCEPT ![g].pc = "return",
                                     ![g].own = SubSeq(heap, 1, one.len) \o two]
  /\ UNCHANGED << sampler, params, pc, result, trail, op, ret, heap >>

\* append writes the element of two() into the spare cell of the array
AppendsInPlace(g) ==
  /\ procs[g].pc = "append"
  /\ heap' = [heap EXCEPT ![2] = procs[g].want[2]]
  /\ procs' = [procs EXCEPT ![g].pc = "return"]
  /\ UNCHANGED << sampler, params, pc, result, trail, op, ret >>

\* ShouldSample returns: the attributes of the SamplingResult are the slice
\* append returned, the shared array or the goroutine's own
Returns(g) ==
  /\ procs[g].pc = "return"
  /\ procs' = [procs EXCEPT
       ![g].pc = "returned",
       ![g].returned =
          [done |-> TRUE, Decision |-> procs[g].returned.Decision,
           Tracestate |-> procs[g].returned.Tracestate,
           Attributes |-> IF procs[g].inPlace THEN SubSeq(heap, 1, 2)
                          ELSE procs[g].own]]
  /\ UNCHANGED << sampler, params, pc, result, trail, op, ret, heap >>

NextConcurrent ==
  \E g \in Goroutines :
    \/ Decides(g)
    \/ CallsProducers(g)
    \/ AppendsInPlace(g)
    \/ Returns(g)

SpecConcurrent == InitConcurrent /\ [][NextConcurrent]_vars

----------------------------------------------------------------------------
(* the lazy cells of ShouldSample: lazy[T] and sync.Once *)

\* the cells ShouldSample makes with newLazy
LazyCells == { "psc", "otts", "threshold", "randomness" }

\* the zero value of the cell's type T, which lazy.value holds until the
\* evaluator has run
ZeroValue(cell) ==
  CASE cell = "psc" -> NoSpanContext
    [] cell = "otts" -> ""
    [] cell = "threshold" -> Int64Zero
    [] cell = "randomness" -> Int64Zero

\* newLazy(evaluator): once not done, its mutex free, value the zero value;
\* set and runs record whether value was assigned and how often the
\* evaluator was started
newLazy(cell) ==
  [done |-> FALSE, locked |-> FALSE, value |-> ZeroValue(cell), set |-> FALSE,
   runs |-> 0]

\* what an evaluator does next, given the cells it has read so far: it
\* reads another cell, it returns a value, or it panics
NeedsCell(cell) == [kind |-> "need", cell |-> cell]
Yields(v) == [kind |-> "value", v |-> v]
Panics == [kind |-> "panic"]

HasRead(read, cell) == \E i \in 1..Len(read) : read[i].cell = cell
ReadValue(read, cell) ==
  read[CHOOSE i \in 1..Len(read) : read[i].cell = cell].value

\* the threshold evaluator, after otts.Value(), with the lookup's outcome
thresholdEvaluator(th, read) ==
  IF th.panic THEN Panics
  ELSE IF th.has THEN Yields(th.v)
  ELSE IF ~HasRead(read, "psc") THEN NeedsCell("psc")
  ELSE IF ReadValue(read, "psc").Sampled THEN Yields(INVALID_THRESHOLD)
  ELSE Yields(NEVER_SAMPLE_THRESHOLD)

\* the randomness evaluator, after otts.Value(), with the lookup's outcome
randomnessEvaluator(rv, traceID) ==
  IF rv.panic THEN Panics
  ELSE IF rv.has THEN Yields(rv.v)
  ELSE Yields(TraceIDRandomness(traceID))

\* the four evaluators of ShouldSample
evaluator(cell, read, p) ==
  CASE cell = "psc" -> Yields(SpanContextFromContext(p.ParentContext))
    [] cell = "otts" ->
         IF ~HasRead(read, "psc") THEN NeedsCell("psc")
         ELSE Yields(TsGet(ReadValue(read, "psc").TraceState, "ot"))
    [] cell = "threshold" ->
         IF ~HasRead(read, "otts") THEN NeedsCell("otts")
         ELSE thresholdEvaluator(
                tracestateHasThreshold(ReadValue(read, "otts")), read)
    [] cell = "randomness" ->
         IF ~HasRead(read, "otts") THEN NeedsCell("otts")
         ELSE IF ReadValue(read, "otts") = ""
         THEN Yields(TraceIDRandomness(p.TraceID))
         ELSE randomnessEvaluator(
                tracestateHasRandomness(ReadValue(read, "otts")), p.TraceID)

\* the parameters of the call whose cells are read: a root span, and
\* parents with and without th and rv, a th before another sub-field
LazyParams ==
  { p \in Params :
      /\ p.TraceID = CHOOSE id \in TraceIDs : TRUE
      /\ p.ParentContext.hasSpan =>
           p.ParentContext.span.TraceState
             \in { EmptyTraceState, << OtMember("th:8") >>,
                   << OtMember("xx:abc") >>,
                   << OtMember("rv:c0000000000000;th:8") >>,
                   << OtMember("th:8;xx:abc") >> } }

\* the accessors a goroutine calls, in order: parentThreshold(),
\* randomnessValue(), ParentSpanContext() of the nested samplers, and the
\* randomness.Value() of ShouldSample itself
LazyReads ==
  { << "threshold", "randomness", "randomness" >>, << "randomness", "psc" >> }

\* a call of Value() in progress: the cell, the position in Value and
\* once.Do, and what the evaluator has read so far
Frame(cell) == [cell |-> cell, pc |-> "load", read |-> << >>]

Reading(todo) == [stack |-> << >>, todo |-> todo, got |-> << >>, state |-> "running"]

InitLazy ==
  /\ params \in LazyParams
  /\ heap = [cell \in LazyCells |-> newLazy(cell)]
  /\ procs \in [Goroutines -> { Reading(t) : t \in LazyReads }]
  /\ sampler = CompositeSampler(ParentThreshold)
  /\ pc = "idle"
  /\ result = NoResult
  /\ trail = << >>
  /\ op = NoCall
  /\ ret = NoReturn

\* an unrecovered panic of one goroutine ends the program
Crashed == \E g \in Goroutines : procs[g].state = "panic"

Top(g) == procs[g].stack[Len(procs[g].stack)]

AtPc(g, where) ==
  /\ ~Crashed
  /\ Len(procs[g].stack) > 0
  /\ Top(g).pc = where

SetTopPc(g, where) ==
  [procs EXCEPT ![g].stack[Len(procs[g].stack)].pc = where]

\* a caller calls the next accessor: cell.Value()
CallsValue(g) ==
  /\ ~Crashed
  /\ Len(procs[g].stack) = 0
  /\ Len(procs[g].todo) > 0
  /\ procs' = [procs EXCEPT ![g].stack = << Frame(procs[g].todo[1]) >>,
                            ![g].todo = Tail(procs[g].todo)]
  /\ UNCHANGED << sampler, params, pc, result, trail, op, ret, heap >>

\* once.Do: the fast path, o.done.Load()
LoadsDone(g) ==
  /\ AtPc(g, "load")
  /\ procs' = SetTopPc(g, IF heap[Top(g).cell].done THEN "return" ELSE "lock")
  /\ UNCHANGED << sampler, params, pc, result, trail, op, ret, heap >>

\* doSlow: o.m.Lock(), which waits for the mutex, and the second look at
\* done; the evaluator is started when done is still 0
LocksOnce(g) ==
  /\ AtPc(g, "lock")
  /\ ~heap[Top(g).cell].locked
  /\ heap' = [heap EXCEPT
       ![Top(g).cell].locked = TRUE,
       ![Top(g).cell].runs = IF heap[Top(g).cell].done THEN @ ELSE @ + 1]
  /\ procs' = SetTopPc(g, IF heap[Top(g).cell].done THEN "unlock" ELSE "eval")
  /\ UNCHANGED << sampler, params, pc, result, trail, op, ret >>

\* the evaluator calls Value() of a cell it depends on
EvaluatorReads(g) ==
  /\ AtPc(g, "eval")
  /\ evaluator(Top(g).cell, Top(g).read, params).kind = "need"
  /\ procs' = [procs EXCEPT
       ![g].stack = Append(@, Frame(evaluator(Top(g).cell, Top(g).read,
                                              params).cell))]
  /\ UNCHANGED << sampler, params, pc, result, trail, op, ret, heap >>

\* the evaluator returns: l.value = l.evaluator()
EvaluatorReturns(g) ==
  /\ AtPc(g, "eval")
  /\ evaluator(Top(g).cell, Top(g).read, params).kind = "value"
  /\ heap' = [heap EXCEPT
       ![Top(g).cell].value = evaluator(Top(g).cell, Top(g).read, params).v,
       ![Top(g).cell].set = TRUE]
  /\ procs' = SetTopPc(g, "store")
  /\ UNCHANGED << sampler, params, pc, result, trail, op, ret >>

\* the evaluator panics: the deferred o.done.Store(1) and o.m.Unlock() of
\* every once.Do on the goroutine's stack run, and nothing recovers
EvaluatorPanics(g) ==
  /\ AtPc(g, "eval")
  /\ evaluator(Top(g).cell, Top(g).read, params).kind = "panic"
  /\ heap' = [cell \in LazyCells |->
                IF \E i \in 1..Len(procs[g].stack) : procs[g].stack[i].cell = cell
                THEN [heap[cell] EXCEPT !.done = TRUE, !.locked = FALSE]
                ELSE heap[cell]]
  /\ procs' = [procs EXCEPT ![g].stack = << >>, ![g].state = "panic"]
  /\ UNCHANGED << sampler, params, pc, result, trail, op, ret >>

\* the deferred o.done.Store(1)
StoresDone(g) ==
  /\ AtPc(g, "store")
  /\ heap' = [heap EXCEPT ![Top(g).cell].done = TRUE]
  /\ procs' = SetTopPc(g, "unlock")
  /\ UNCHANGED << sampler, params, pc, result, trail, op, ret >>

\* the deferred o.m.Unlock()
UnlocksOnce(g) ==
  /\ AtPc(g, "unlock")
  /\ heap' = [heap EXCEPT ![Top(g).cell].locked = FALSE]
  /\ procs' = SetTopPc(g, "return")
  /\ UNCHANGED << sampler, params, pc, result, trail, op, ret >>

\* return l.value: to the evaluator that asked, or to the caller
ValueOfCell(cell) ==
  [cell |-> cell, value |-> heap[cell].value, set |-> heap[cell].set]

ReturnsValue(g) ==
  /\ AtPc(g, "return")
  /\ procs' =
       IF Len(procs[g].stack) = 1
       THEN [procs EXCEPT ![g].stack = << >>,
                          ![g].got = Append(@, ValueOfCell(Top(g).cell))]
       ELSE [procs EXCEPT
               ![g].stack =
                  [SubSeq(@, 1, Len(@) - 1) EXCEPT
                     ![Len(@) - 1].read = Append(@, ValueOfCell(Top(g).cell))]]
  /\ UNCHANGED << sampler, params, pc, result, trail, op, ret, heap >>

NextLazy ==
  \E g \in Goroutines :
    \/ CallsValue(g)
    \/ LoadsDone(g)
    \/ LocksOnce(g)
    \/ EvaluatorReads(g)
    \/ EvaluatorReturns(g)
    \/ EvaluatorPanics(g)
    \/ StoresDone(g)
    \/ UnlocksOnce(g)
    \/ ReturnsValue(g)

SpecLazy == InitLazy /\ [][NextLazy]_vars

----------------------------------------------------------------------------
(* what the claims speak of *)

\* the call in `result` is over (it returned or it panicked); sampler and
\* params are then those of that call
CallDone == pc # "call"
Returned == pc = "returned"

\* the parent span context and the ot fragment of the current call
CurrentParent == SpanContextFromContext(params.ParentContext)
CurrentFragment == TsGet(CurrentParent.TraceState, "ot")

\* the wire format: a fragment is a ';'-separated list of key:value pairs
RECURSIVE SplitFields(_)
SplitFields(s) ==
  LET i == IndexByte(s, ";")
  IN  IF i < 0 THEN << s >>
      ELSE << SubSeq(s, 1, i) >> \o SplitFields(SubSeq(s, i + 2, Len(s)))

SubFields(fragment) == IF fragment = "" THEN << >> ELSE SplitFields(fragment)

HasColon(field) == IndexByte(field, ":") >= 0
KeyOf(field) == SubSeq(field, 1, IndexByte(field, ":"))
ValueOf(field) == SubSeq(field, IndexByte(field, ":") + 2, Len(field))

WellFormedFragment(fragment) ==
  \A i \in 1..Len(SubFields(fragment)) : HasColon(SubFields(fragment)[i])

\* the sub-fields of that key
FieldsOfKey(fragment, key) ==
  SelectSeq(SubFields(fragment), LAMBDA f : HasColon(f) /\ KeyOf(f) = key)

FieldsNotOfKey(fragment, key) ==
  SelectSeq(SubFields(fragment), LAMBDA f : ~(HasColon(f) /\ KeyOf(f) = key))

IsHexString(v) == \A i \in 1..Len(v) : HexDigitValue(SubSeq(v, i, i)) >= 0

WellFormedRv(field) == Len(ValueOf(field)) = 14 /\ IsHexString(ValueOf(field))

WellFormedTh(field) ==
  Len(ValueOf(field)) \in 1..14 /\ IsHexString(ValueOf(field))

\* a threshold in [0, 2^56)
InThresholdRange(t) == Leq(Int64Zero, t) /\ Lt(t, maxAdjustedCount)

\* the threshold the sampled-flag rule gives a parent without th
FlagThreshold(psc) ==
  IF psc.Sampled THEN INVALID_THRESHOLD ELSE NEVER_SAMPLE_THRESHOLD

\* the current parameters with the parent's fragment replaced
RECURSIVE JoinFields(_)
JoinFields(fields) ==
  IF Len(fields) = 0 THEN ""
  ELSE IF Len(fields) = 1 THEN fields[1]
  ELSE fields[1] \o ";" \o JoinFields(Tail(fields))

ParamsWithFragment(fragment) ==
  LET ts == CurrentParent.TraceState
      replaced == [i \in 1..Len(ts) |->
                     IF ts[i].Key = "ot" THEN [Key |-> "ot", Value |-> fragment]
                     ELSE ts[i]]
      kept == IF fragment = "" THEN TsWithout(ts, "ot") ELSE replaced
  IN  [params EXCEPT !.ParentContext.span.TraceState = kept]

----------------------------------------------------------------------------
(* C1 *)

\* the root call of the trace was made by
\* CompositeSampler(ConsistentParentBased(TraceIDRatioBased(f))) and
\* returned RecordAndSample
RootSampledByRatio ==
  /\ Len(trail) >= 1
  /\ ~trail[1].params.ParentContext.hasSpan
  /\ \E f \in Fractions :
       trail[1].sampler
         = CompositeSampler(ConsistentParentBased(TraceIDRatioBased(f)))
  /\ ~trail[1].result.panicked
  /\ trail[1].result.Decision = RecordAndSample

\* a descendant of that root decided by CompositeSampler(ConsistentParentBased(x))
IsConsistentParentBased(c) ==
  \E x \in RootSamplers : c = CompositeSampler(ConsistentParentBased(x))

\* C1: consistency across hops.  When the root decision of
\* CompositeSampler(ConsistentParentBased(TraceIDRatioBased(f))) is
\* RecordAndSample with trace state S, every descendant decision of a
\* ConsistentParentBased sampler in that context inherits the root's
\* threshold, is RecordAndSample too and returns S unchanged.
C1_ConsistentAcrossHops ==
  RootSampledByRatio =>
    \A k \in 2..Len(trail) :
      IsConsistentParentBased(trail[k].sampler) =>
        /\ ~trail[k].result.panicked
        /\ trail[k].result.threshold = trail[1].result.intent.Threshold
        /\ trail[k].result.Decision = RecordAndSample
        /\ trail[k].result.Tracestate = trail[1].result.Tracestate

----------------------------------------------------------------------------
(* C2 *)

\* the parent's fragment is well-formed and carries exactly one rv, a
\* well-formed one, at any position
CarriesWellFormedRv(fragment) ==
  /\ WellFormedFragment(fragment)
  /\ Len(FieldsOfKey(fragment, "rv")) = 1
  /\ WellFormedRv(FieldsOfKey(fragment, "rv")[1])

\* C2: same randomness along the trace.  Whenever the parent's fragment
\* carries a well-formed rv, at any position, the call uses its value as the
\* randomness, and the fragment of the returned trace state carries the
\* identical rv sub-field, whether or not th was rewritten.
C2_SameRandomness ==
  (CallDone /\ CarriesWellFormedRv(CurrentFragment)) =>
    /\ Returned
    /\ result.rnd = ParseUint(ValueOf(FieldsOfKey(CurrentFragment, "rv")[1])).v
    /\ result.intent.TraceState.nil =>
         FieldsOfKey(TsGet(result.Tracestate, "ot"), "rv")
           = FieldsOfKey(CurrentFragment, "rv")

\* C2, the second half alone: a call that found the parent's rv and returned
\* keeps the rv sub-field in the returned fragment
C2_RvKeptOnRewrite ==
  (Returned /\ CarriesWellFormedRv(CurrentFragment)
     /\ result.intent.TraceState.nil) =>
    FieldsOfKey(TsGet(result.Tracestate, "ot"), "rv")
      = FieldsOfKey(CurrentFragment, "rv")

----------------------------------------------------------------------------
(* C3 *)

\* C3: round trip.  For every threshold T in [0, 2^56) and every original
\* trace state, tracestateHasThreshold of the ot fragment written by
\* combineTracestate(original, T) finds the value T.
C3_RoundTrip ==
  (Returned /\ result.combined /\ InThresholdRange(result.intent.Threshold)) =>
    LET back == tracestateHasThreshold(TsGet(result.Tracestate, "ot"))
    IN  ~back.panic /\ back.has /\ back.v = result.intent.Threshold

----------------------------------------------------------------------------
(* C4 *)

\* C4: the rewrite preserves the foreign sub-fields.  For a well-formed
\* fragment and a new threshold T >= 0, the fragment written by
\* combineTracestate is every sub-field of the input whose key is not th,
\* byte for byte and in order, followed by exactly one th entry.
C4_RewritePreservesFields ==
  (Returned /\ result.combined
     /\ Leq(Int64Zero, result.intent.Threshold)
     /\ WellFormedFragment(TsGet(BaseTracestate(result.intent, CurrentParent), "ot"))) =>
    LET before == TsGet(BaseTracestate(result.intent, CurrentParent), "ot")
        after  == SubFields(TsGet(result.Tracestate, "ot"))
    IN  /\ Len(after) = Len(FieldsNotOfKey(before, "th")) + 1
        /\ SubSeq(after, 1, Len(after) - 1) = FieldsNotOfKey(before, "th")
        /\ HasColon(after[Len(after)]) /\ KeyOf(after[Len(after)]) = "th"

----------------------------------------------------------------------------
(* C5 *)

\* C5: no decision fails on an inherited trace state.  Whatever the parent's
\* ot fragment, reading it never panics.
C5_NoPanicOnFragment ==
  CallDone => ~(result.panicked /\ result.cause = SliceBoundsOutOfRange)

----------------------------------------------------------------------------
(* C6 *)

\* C6: no decision fails on an intent.  Whatever intent the composable
\* sampler returns, the call does not fail on it; an unselected intent with
\* Record set, Export unset and no attributes producer gives RecordOnly
\* with no attributes.
C6_NoPanicOnIntent ==
  (CallDone /\ result.cause # SliceBoundsOutOfRange) =>
    /\ Returned
    /\ (/\ result.intent.Record /\ ~result.intent.Export
        /\ result.intent.Attributes.nil
        /\ ~IsSampled(result.intent.Threshold, result.rnd)) =>
         (result.Decision = RecordOnly /\ result.Attributes = << >>)

----------------------------------------------------------------------------
(* C7 *)

\* the decision the spec gives an intent and a randomness
SpecSelected(t, r) ==
  t # NEVER_SAMPLE_THRESHOLD /\ (Leq(t, ALWAYS_SAMPLE_THRESHOLD) \/ Leq(t, r))

SpecDecision(intent, r) ==
  IF SpecSelected(intent.Threshold, r) THEN RecordAndSample
  ELSE IF intent.Export THEN ExportOnly
  ELSE IF intent.Record THEN RecordOnly
  ELSE Drop

\* C7: the decision function.  Every call that read its parent's fragment
\* decides RecordAndSample iff the intent's threshold T is not the never
\* sentinel and T <= 0 or T <= R, and otherwise ExportOnly, RecordOnly or
\* Drop after the intent's Export and Record flags.
C7_DecisionFunction ==
  (CallDone /\ result.cause # SliceBoundsOutOfRange) =>
    (Returned /\ result.Decision = SpecDecision(result.intent, result.rnd))

\* C7 for the calls that return
C7_DecisionWhenReturned ==
  Returned => result.Decision = SpecDecision(result.intent, result.rnd)

----------------------------------------------------------------------------
(* C8 *)

\* the fragment is well-formed but for its one sub-field of that key, whose
\* value is malformed
MalformedRvIn(fragment) ==
  /\ Len(FieldsOfKey(fragment, "rv")) = 1
  /\ ~WellFormedRv(FieldsOfKey(fragment, "rv")[1])

MalformedThIn(fragment) ==
  /\ Len(FieldsOfKey(fragment, "th")) = 1
  /\ ~WellFormedTh(FieldsOfKey(fragment, "th")[1])

\* the number of malformed fields a decision has to report
MalformedCount(fragment) ==
  (IF MalformedRvIn(fragment) THEN 1 ELSE 0)
    + (IF MalformedThIn(fragment) THEN 1 ELSE 0)

\* the fragment without its malformed rv and th
WithoutMalformed(fragment) ==
  LET noRv == IF MalformedRvIn(fragment)
              THEN JoinFields(FieldsNotOfKey(fragment, "rv")) ELSE fragment
  IN  IF MalformedThIn(noRv)
      THEN JoinFields(FieldsNotOfKey(noRv, "th")) ELSE noRv

\* C8: a malformed rv or th is recoverable.  With a malformed rv (or th) in
\* the parent's fragment the randomness is that of the trace identifier (the
\* inherited threshold that of the sampled flag), the diagnostic hook is
\* called once for each malformed field, and the decision is the one the
\* fragment without the field gives.
C8_MalformedIsAbsent ==
  (/\ CallDone
   /\ WellFormedFragment(CurrentFragment)
   /\ MalformedCount(CurrentFragment) > 0
   /\ Len(FieldsOfKey(CurrentFragment, "rv")) <= 1
   /\ Len(FieldsOfKey(CurrentFragment, "th")) <= 1) =>
    /\ ~(result.panicked /\ result.cause = SliceBoundsOutOfRange)
    /\ MalformedRvIn(CurrentFragment) =>
         result.rnd = TraceIDRandomness(params.TraceID)
    /\ MalformedThIn(CurrentFragment) =>
         result.threshold = FlagThreshold(CurrentParent)
    /\ result.parseErrors = MalformedCount(CurrentFragment)
    /\ result.Decision
         = ShouldSample(sampler.sampler,
                        ParamsWithFragment(WithoutMalformed(CurrentFragment))).Decision

\* C8 where the malformed field is the last of the fragment
C8_MalformedLastIsAbsent ==
  (/\ CallDone
   /\ WellFormedFragment(CurrentFragment)
   /\ Len(SubFields(CurrentFragment)) = 1
   /\ MalformedCount(CurrentFragment) > 0) =>
    /\ ~(result.panicked /\ result.cause = SliceBoundsOutOfRange)
    /\ MalformedRvIn(CurrentFragment) =>
         result.rnd = TraceIDRandomness(params.TraceID)
    /\ MalformedThIn(CurrentFragment) =>
         result.threshold = FlagThreshold(CurrentParent)
    /\ result.parseErrors = 1
    /\ result.Decision
         = ShouldSample(sampler.sampler, ParamsWithFragment("")).Decision

----------------------------------------------------------------------------
(* C9 *)

\* C9: trace-state pass-through.  For an intent without a trace-state
\* producer, the returned trace state differs from the parent's only when
\* the intent's threshold differs from the inherited one; when the two are
\* equal, and for every Drop and RecordOnly decision, the parent's trace
\* state is returned unchanged.
C9_PassThrough ==
  (Returned /\ result.intent.TraceState.nil) =>
    /\ result.Tracestate # CurrentParent.TraceState =>
         result.intent.Threshold # result.threshold
    /\ (\/ result.intent.Threshold = result.threshold
        \/ result.Decision \in { Drop, RecordOnly }) =>
         result.Tracestate = CurrentParent.TraceState

\* a RecordAndSample decision whose threshold equals the inherited one, read
\* from the th of a parent whose trace state has another vendor's member
\* before ot
C9_Witness ==
  /\ Returned
  /\ result.intent.TraceState.nil
  /\ result.Decision = RecordAndSample
  /\ result.intent.Threshold = result.threshold
  /\ Len(FieldsOfKey(CurrentFragment, "th")) = 1
  /\ Len(CurrentParent.TraceState) = 2
  /\ result.Tracestate = CurrentParent.TraceState

----------------------------------------------------------------------------
(* C10 *)

----------------------------------------------------------------------------
(* C11 *)

\* the rules whose predicate matches, and the first of them
MatchingRules(rules, p) == { i \in 1..Len(rules) : Decide(rules[i].Predicate, p) }

FirstMatch(rules, p) ==
  CHOOSE i \in MatchingRules(rules, p) : \A j \in MatchingRules(rules, p) : i <= j

\* the intent the claim gives RuleBased(rules..., [default]): that of the
\* first matching rule, else that of the default rule, else the never
\* threshold
DispatchedIntent(rules, hasDefault, defRule, p) ==
  IF MatchingRules(rules, p) # { }
  THEN GetSamplingIntent(rules[FirstMatch(rules, p)].ComposableSampler, p)
  ELSE IF hasDefault THEN GetSamplingIntent(defRule, p)
  ELSE ThresholdIntent(NEVER_SAMPLE_THRESHOLD)

\* C11, the dispatch alone: GetSamplingIntent of a rule-based sampler
\* returns the intent of the first rule, in configured order, whose
\* predicate matches; the predicates of the rules after it are not
\* evaluated and no other sampler is asked; the default rule comes last;
\* without a match the intent is the never threshold.
C11_DispatchIntent ==
  (op.name = "ruleBased.GetSamplingIntent" /\ ret.done) =>
    /\ ret.v = DispatchedIntent(op.rules, op.hasDefault, op.defRule, op.params)
    /\ op.hasDefault =>
         /\ Len(ret.sampler.rules) = Len(op.rules) + 1
         /\ ret.sampler.rules[Len(ret.sampler.rules)].ComposableSampler = op.defRule
         /\ SubSeq(ret.sampler.rules, 1, Len(op.rules)) = op.rules
    /\ MatchingRules(ret.sampler.rules, op.params) # { } =>
         LET first == FirstMatch(ret.sampler.rules, op.params)
         IN  /\ ret.consults.asked = << first >>
             /\ ret.consults.decided = [i \in 1..first |-> i]
    /\ MatchingRules(ret.sampler.rules, op.params) = { } =>
         /\ ret.consults.asked = << >>
         /\ ret.v = ThresholdIntent(NEVER_SAMPLE_THRESHOLD)

\* C11: RuleBased dispatch.  GetSamplingIntent returns the intent of the
\* first matching rule, the default rule last, the never threshold without
\* a match; and CompositeSampler(RuleBased(rule(name==/healthcheck ->
\* NeverSample), default -> AlwaysSample)) returns Drop for every span named
\* /healthcheck and RecordAndSample for every other name.
C11_RuleBasedDispatch ==
  /\ C11_DispatchIntent
  /\ (/\ op.name = "ShouldSample"
      /\ op.sampler = CompositeSampler(HealthcheckSampler)
      /\ ret.done) =>
       /\ ~ret.v.panicked
       /\ ret.v.Decision = IF op.params.Name = "/healthcheck" THEN Drop
                           ELSE RecordAndSample

\* the second half of C11 for the calls that return
C11_HealthcheckWhenReturned ==
  (/\ op.name = "ShouldSample"
   /\ op.sampler = CompositeSampler(HealthcheckSampler)
   /\ ret.done
   /\ ~ret.v.panicked) =>
    ret.v.Decision = IF op.params.Name = "/healthcheck" THEN Drop
                     ELSE RecordAndSample

----------------------------------------------------------------------------
(* C12 *)

ParentBasedAlways == CompositeSampler(ConsistentParentBased(ComposableAlwaysSample))

\* what C12 says of a call that returned: a root span is RecordAndSample, a
\* non-root span is selected iff T <= R, the never sentinel never selected
ParentBasedAlwaysDecision ==
  IF ~CurrentParent.Valid
  THEN result.Decision = RecordAndSample
  ELSE /\ result.intent.Threshold = result.threshold
       /\ result.Decision = RecordAndSample
            <=> (/\ result.threshold # NEVER_SAMPLE_THRESHOLD
                 /\ Leq(result.threshold, result.rnd))

\* C12: under CompositeSampler(ConsistentParentBased(AlwaysSample)) every
\* root span is RecordAndSample, and every non-root span, with inherited
\* threshold T and randomness R, is selected iff T <= R (never for the never
\* sentinel).
C12_ParentBasedAlways ==
  (CallDone /\ sampler = ParentBasedAlways) =>
    (Returned /\ ParentBasedAlwaysDecision)

\* C12 for the calls that return
C12_WhenReturned ==
  (Returned /\ sampler = ParentBasedAlways) => ParentBasedAlwaysDecision

----------------------------------------------------------------------------
(* C13 *)

\* the parent's trace state of the single ShouldSample call
CalledParent == SpanContextFromContext(op.params.ParentContext)

\* C13: always-on equivalence.  For every parent context, AlwaysSample() and
\* CompositeSampler(ComposableAlwaysSample()) both return RecordAndSample,
\* no attributes, and the parent's trace state.
C13_AlwaysOnEquivalence ==
  (/\ op.name = "ShouldSample"
   /\ op.sampler \in { AlwaysSample, CompositeSampler(ComposableAlwaysSample) }
   /\ ret.done) =>
    /\ ~ret.v.panicked
    /\ ret.v.Decision = RecordAndSample
    /\ ret.v.Attributes = << >>
    /\ ret.v.Tracestate = CalledParent.TraceState

\* C13 of AlwaysSample() alone
C13_AlwaysSample ==
  (op.name = "ShouldSample" /\ op.sampler = AlwaysSample /\ ret.done) =>
    /\ ~ret.v.panicked
    /\ ret.v.Decision = RecordAndSample
    /\ ret.v.Attributes = << >>
    /\ ret.v.Tracestate = CalledParent.TraceState

\* what holds of CompositeSampler(ComposableAlwaysSample()): a call that
\* returns gives RecordAndSample and no attributes, and the parent's trace
\* state when the parent's th is 0
C13_CompositeAlwaysWhenReturned ==
  (/\ op.name = "ShouldSample"
   /\ op.sampler = CompositeSampler(ComposableAlwaysSample)
   /\ ret.done
   /\ ~ret.v.panicked) =>
    /\ ret.v.Decision = RecordAndSample
    /\ ret.v.Attributes = << >>
    /\ ret.v.Tracestate # CalledParent.TraceState =>
         \/ ~tracestateHasThreshold(TsGet(CalledParent.TraceState, "ot")).has
         \/ tracestateHasThreshold(TsGet(CalledParent.TraceState, "ot")).v
              # ALWAYS_SAMPLE_THRESHOLD

----------------------------------------------------------------------------
(* C14 *)

\* what the producers of a list of AttributesFunc yield, one after the other
RECURSIVE YieldOf(_)
YieldOf(producers) ==
  IF Len(producers) = 0 THEN << >>
  ELSE (IF producers[1].nil THEN << >> ELSE producers[1].calls)
         \o YieldOf(Tail(producers))

\* C14: the intent of AnnotatingSampler(inner, options...) has the
\* Threshold, Record, Export and trace-state producer of the inner
\* sampler's intent; its attributes producer calls the inner intent's
\* producer first and then the producers of the options in the order given,
\* each once, and yields their attributes in that order.
C14_Annotating ==
  (op.name = "annotatingSampler.GetSamplingIntent" /\ ret.done) =>
    LET inner == GetSamplingIntent(op.sampler, op.params)
    IN  /\ ret.v.Threshold = inner.Threshold
        /\ ret.v.Record = inner.Record
        /\ ret.v.Export = inner.Export
        /\ ret.v.TraceState = inner.TraceState
        /\ ~ret.v.Attributes.nil
        /\ ret.v.Attributes.calls = YieldOf(<< inner.Attributes >> \o op.options)

\* an inner intent with attributes, annotated with two different producers
C14_Witness ==
  /\ op.name = "annotatingSampler.GetSamplingIntent"
  /\ ret.done
  /\ op.sampler = IntentSampler(FullIntent)
  /\ op.options = << AttributesOf("B"), AttributesOf("A") >>
  /\ ret.v.Attributes.calls = << "K", "B", "A" >>
  /\ ~ret.v.TraceState.nil

----------------------------------------------------------------------------
(* C15 *)

\* the precision the claim gives the fraction k / 2^56: min(14, 4 +
\* floor(-e / 4)), -e being the number of leading zero bits of the 56-bit k,
\* so floor(-e / 4) its number of leading zero hex digits
ClaimedPrecision(k) ==
  LET zeros == FirstNonZero(k, 1) - (Int64Digits - maxp) - 1
  IN  IF 4 + zeros < 14 THEN 4 + zeros ELSE 14

\* r is t rounded half-up to p hex digits: its low 14 - p digits are zero
\* and r <= t + half < r + 16^(14 - p)
RoundedHalfUp(r, t, p) ==
  IF p = 14 THEN r = t
  ELSE LET up == AddAt(t, Int64Digits - (14 - p) + 1, 8)
       IN  /\ \A i \in (Int64Digits - (14 - p) + 1)..Int64Digits : r[i] = 0
           /\ Leq(r, up)
           /\ Lt(up, AddAt(r, Int64Digits - (14 - p), 1))

InSupportedRange(k) == Leq(minSupportedScaled, k) /\ Leq(k, maxSupportedScaled)

----------------------------------------------------------------------------
(* C16 *)

\* C16: Optimize preserves behaviour.  The sampler Optimize returns for a
\* tree of rule-based, annotating and leaf samplers under CompositeSampler
\* makes the same ShouldSample decision, attributes and trace state for all
\* parameters, and has the same Description; a sampler without the
\* optimizer capability is returned as it is.
C16_OptimizePreserves ==
  (op.name = "Optimize" /\ ret.done) =>
    /\ \A p \in OptimizeParams :
         SamplerShouldSample(ret.v, p) = SamplerShouldSample(op.sampler, p)
    /\ Description(ret.v) = Description(op.sampler)
    /\ op.sampler.kind # "Composite" => ret.v = op.sampler
    /\ op.sampler.kind = "Composite" =>
         /\ ret.v.kind = "Composite"
         /\ op.sampler.sampler \in DispatchLeaves => ret.v.sampler = op.sampler.sampler

\* the optimized sampler is a rule-based sampler whose rule holds an
\* annotating sampler, and a span it samples gets the attributes
C16_Witness ==
  /\ op.name = "Optimize"
  /\ ret.done
  /\ ret.v.kind = "Composite"
  /\ ret.v.sampler.kind = "RuleBased"
  /\ ret.v.sampler.rules[1].ComposableSampler.kind = "Annotating"
  /\ \E p \in OptimizeParams :
       /\ ~SamplerShouldSample(ret.v, p).panicked
       /\ SamplerShouldSample(ret.v, p).Attributes = << "A", "B" >>

----------------------------------------------------------------------------
(* C17 *)

\* the result of the call of goroutine g when it runs alone
Alone(g) ==
  LET r == SamplerShouldSample(sampler, procs[g].params)
  IN  [done |-> TRUE, Decision |-> r.Decision, Tracestate |-> r.Tracestate,
       Attributes |-> r.Attributes]

HasReturned(g) == procs[g].pc = "returned"

\* C17: independent concurrent decisions.  In every interleaving of
\* concurrent ShouldSample calls on one shared sampler each call returns the
\* result it returns when run alone, and two calls with equal parameters
\* return equal results.
C17_IndependentCalls ==
  /\ \A g \in Goroutines : HasReturned(g) => procs[g].returned = Alone(g)
  /\ \A g, h \in Goroutines :
       (HasReturned(g) /\ HasReturned(h) /\ procs[g].params = procs[h].params) =>
         procs[g].returned = procs[h].returned

\* C17 when the slice of the shared producer has no spare capacity, and the
\* equal-parameters half in every case
C17_WithoutSpareCapacity ==
  /\ Len(heap) = 1 =>
       \A g \in Goroutines : HasReturned(g) => procs[g].returned = Alone(g)
  /\ \A g, h \in Goroutines :
       (HasReturned(g) /\ HasReturned(h) /\ procs[g].params = procs[h].params) =>
         procs[g].returned = procs[h].returned

----------------------------------------------------------------------------
(* C18 *)

LowerHexDigits == "0123456789abcdef"

IsLowerHex(v) ==
  \A i \in 1..Len(v) : IndexByte(LowerHexDigits, SubSeq(v, i, i)) >= 0

\* the th sub-fields of the ot member of the rewritten trace state
WrittenTh == FieldsOfKey(TsGet(ret.v, "ot"), "th")

\* C18: canonical th encoding.  For every threshold T in [0, 2^56) the th
\* value combineTracestate writes is 1 to 14 lower-case hex digits without
\* a trailing zero digit, but for T = 0, which is written as the one digit
\* 0.
C18_CanonicalTh ==
  (op.name = "combineTracestate" /\ ret.done) =>
    /\ WellFormedFragment(TsGet(op.original, "ot")) => Len(WrittenTh) = 1
    /\ \A i \in 1..Len(WrittenTh) :
         LET v == ValueOf(WrittenTh[i])
         IN  /\ Len(v) \in 1..14
             /\ IsLowerHex(v)
             /\ op.updateThreshold = Int64Zero <=> v = "0"
             /\ op.updateThreshold # Int64Zero => SubSeq(v, Len(v), Len(v)) # "0"

\* a threshold with trailing zero digits replaces the th of a fragment that
\* has an rv before it, and is written with fewer than 14 digits
C18_Witness ==
  /\ op.name = "combineTracestate"
  /\ ret.done
  /\ op.updateThreshold = ParseUint("f8000000000000").v
  /\ TsGet(op.original, "ot") = "rv:c0000000000000;th:8"
  /\ Len(WrittenTh) = 1
  /\ ValueOf(WrittenTh[1]) = "f8"

----------------------------------------------------------------------------
(* C19 *)

\* the descriptions the claim gives to the samplers without rules
ClaimedName(s) ==
  CASE s = AlwaysSample -> "AlwaysOn"
    [] s = ComposableAlwaysSample -> "AlwaysOn"
    [] s = NeverSample -> "AlwaysOff"
    [] s = ComposableNeverSample -> "AlwaysOff"
    [] s = ParentThreshold -> "ParentThreshold"
    [] s = CompositeSampler(ComposableAlwaysSample) -> "AlwaysOn"
    [] s = CompositeSampler(ParentThreshold) -> "ParentThreshold"

\* "rule(<predicate description>)=<sampler description>"
ClaimedRule(rule) ==
  "rule(" \o PredicateDescription(rule.Predicate) \o ")="
    \o ClaimedName(rule.ComposableSampler)

\* the first n rules in evaluation order, a comma between two of them
RECURSIVE ClaimedRules(_, _)
ClaimedRules(rules, n) ==
  IF n = 0 THEN ""
  ELSE IF n = 1 THEN ClaimedRule(rules[1])
  ELSE ClaimedRules(rules, n - 1) \o "," \o ClaimedRule(rules[n])

\* the rules, and then the default rule as rule(true)
ClaimedRuleBased(rules, hasDefault, defRule) ==
  "RuleBased{"
    \o ClaimedRules(rules, Len(rules))
    \o (IF hasDefault
        THEN (IF Len(rules) = 0 THEN "" ELSE ",")
               \o "rule(true)=" \o ClaimedName(defRule)
        ELSE "")
    \o "}"

\* C19: descriptions are exact.  AlwaysSample() and ComposableAlwaysSample()
\* describe as "AlwaysOn", NeverSample() as "AlwaysOff"; a RuleBased sampler
\* as "RuleBased{" followed by the comma-joined
\* "rule(<predicate description>)=<sampler description>" of its rules in
\* evaluation order, the default rule last as rule(true), and "}"; and
\* CompositeSampler(s) describes as s does.
C19_Descriptions ==
  (op.name = "Description" /\ ret.done) =>
    /\ op.sampler \in DescribedLeaves => ret.v = ClaimedName(op.sampler)
    /\ op.sampler \notin DescribedLeaves =>
         ret.v = ClaimedRuleBased(op.rules, op.hasDefault, op.defRule)
    /\ op.sampler = HealthcheckSampler =>
         ret.v = "RuleBased{rule(Span.Name==/healthcheck)=AlwaysOff,rule(true)=AlwaysOn}"
    /\ op.sampler = ConsistentParentBased(ComposableAlwaysSample) =>
         ret.v = "RuleBased{rule(root?)=AlwaysOn,rule(true)=ParentThreshold}"

\* CompositeSampler of a sampler with two rules and a default rule has been
\* described
C19_Witness ==
  /\ op.name = "Description"
  /\ ret.done
  /\ op.composite
  /\ op.hasDefault
  /\ Len(op.rules) = 2
  /\ ret.v = "RuleBased{rule(root?)=AlwaysOff,rule(Span.Name==/healthcheck)=ParentThreshold,rule(true)=AlwaysOn}"

----------------------------------------------------------------------------
(* C20 *)

\* the key a search key looks for: ";th:" looks for th
SearchedKey(search) == SubSeq(search, 2, 3)

\* the sub-fields of the searched key, in the fragment of the call
SearchedFields == FieldsOfKey(op.otts, SearchedKey(op.search))

LookupDone == op.name = "tracestateHasOTelField" /\ ret.done

\* C20: field lookup.  For every fragment and every recognized key,
\* tracestateHasOTelField finds the key as the leading sub-field and after
\* a ';', and the value it returns is the characters after the key's ':' up
\* to the next ';' or the end of the string, wherever in the fragment the
\* key occurs; it returns not-found when the key is absent.
C20_FieldLookup ==
  LookupDone =>
    /\ ~ret.v.panic
    /\ ret.v.has <=> Len(SearchedFields) > 0
    /\ ret.v.has => ret.v.value = ValueOf(SearchedFields[1])

\* what does hold: the key is found exactly when it is there, unless the
\* slice expression panics, and the value is right when no ';' follows it
C20_LookupOfLastField ==
  LookupDone =>
    /\ ~ret.v.panic => (ret.v.has <=> Len(SearchedFields) > 0)
    /\ ret.v.panic => Len(SearchedFields) > 0
    /\ ( /\ Len(SearchedFields) > 0
         /\ SearchedFields[1] = SubFields(op.otts)[Len(SubFields(op.otts))]
         /\ Len(SearchedFields) = 1 )
         => /\ ~ret.v.panic
            /\ ret.v.has
            /\ ret.v.value = ValueOf(SearchedFields[1])

----------------------------------------------------------------------------
(* C21 *)

\* a k-digit value v read as v * 16^(14-k): its digits, then zero digits
PaddedValue(v) ==
  [i \in 1..Int64Digits |->
     IF i <= Int64Digits - maxp THEN 0
     ELSE IF i - (Int64Digits - maxp) <= Len(v)
     THEN HexDigitValue(SubSeq(v, i - (Int64Digits - maxp),
                               i - (Int64Digits - maxp)))
     ELSE 0]

\* the threshold the parent hands down: its well-formed th, or else what
\* its sampled flag says
ClaimedParentThreshold ==
  LET ths == FieldsOfKey(CurrentFragment, "th")
  IN  IF Len(ths) > 0 /\ WellFormedTh(ths[1])
      THEN PaddedValue(ValueOf(ths[1]))
      ELSE FlagThreshold(CurrentParent)

\* C21: inherited threshold resolution.  The threshold handed to
\* ParentThreshold is the parsed th of the parent's fragment when a
\* well-formed th is present (a k-digit value v meaning v * 16^(14-k));
\* otherwise it is the invalid sentinel when the parent's sampled flag is
\* set and the never sentinel when it is not.
C21_InheritedThreshold ==
  CallDone =>
    /\ result.cause # SliceBoundsOutOfRange
    /\ result.threshold = ClaimedParentThreshold

\* C21 for the calls in which the lookup of th did not panic
C21_WhenLookedUp ==
  (CallDone /\ ~tracestateHasThreshold(CurrentFragment).panic) =>
    result.threshold = ClaimedParentThreshold

----------------------------------------------------------------------------
(* C22 *)

\* bytes 8..15 of the trace identifier read big-endian and masked to the
\* low 56 bits: byte 8 is masked off, bytes 9..15 give the 14 digits
ClaimedTraceRandomness(traceID) ==
  [i \in 1..Int64Digits |->
     IF i <= 2 THEN 0
     ELSE IF i % 2 = 1 THEN traceID[9 + (i - 1) \div 2] \div 16
     ELSE traceID[9 + (i - 2) \div 2] % 16]

\* the randomness of the call: the parent's well-formed rv, or else that of
\* the trace identifier
ClaimedRandomness ==
  LET rvs == FieldsOfKey(CurrentFragment, "rv")
  IN  IF Len(rvs) > 0 /\ WellFormedRv(rvs[1])
      THEN PaddedValue(ValueOf(rvs[1]))
      ELSE ClaimedTraceRandomness(params.TraceID)

\* C22: randomness resolution.  The randomness of a decision is the parsed
\* rv of the parent's fragment when a well-formed rv is present, and
\* otherwise the big-endian value of bytes 8..15 of the trace identifier
\* masked to its low 56 bits; with no rv it depends on the trace identifier
\* alone, and it always lies in [0, 2^56).
C22_Randomness ==
  CallDone =>
    /\ result.cause # SliceBoundsOutOfRange
    /\ result.rnd = ClaimedRandomness
    /\ InThresholdRange(result.rnd)

\* C22 for the calls whose lookups did not panic and whose parent has no
\* rv, or one rv as the last sub-field of the fragment
C22_WhenRvIsLast ==
  LET rvs == FieldsOfKey(CurrentFragment, "rv")
      all == SubFields(CurrentFragment)
  IN  ( /\ CallDone
        /\ result.cause # SliceBoundsOutOfRange
        /\ Len(rvs) = 0 \/ (Len(rvs) = 1 /\ rvs[1] = all[Len(all)]) )
        => /\ result.rnd = ClaimedRandomness
           /\ InThresholdRange(result.rnd)

----------------------------------------------------------------------------
(* C23 *)

CombineDone == op.name = "combineTracestate" /\ ret.done

\* the fragment has a sub-field that is a key without ':'
HasCorruptField(fragment) == ~WellFormedFragment(fragment)

\* the last sub-field of the fragment is a key without ':': nothing after
\* the sub-fields before it holds a ':'
LastFieldCorrupt(fragment) ==
  /\ fragment # ""
  /\ ~HasColon(SubFields(fragment)[Len(SubFields(fragment))])

----------------------------------------------------------------------------
(* C24 *)

\* the call was made on CompositeSampler(ConsistentParentBased(x)) with a
\* parent span whose fragment has no th sub-field
ParentBasedWithoutTh ==
  /\ \E x \in RootSamplers : sampler = CompositeSampler(ConsistentParentBased(x))
  /\ params.ParentContext.hasSpan
  /\ CurrentParent.Valid
  /\ Len(FieldsOfKey(CurrentFragment, "th")) = 0

\* the decision the sampled flag alone gives, the trace state left alone
FlagDecision ==
  /\ result.Decision = (IF CurrentParent.Sampled THEN RecordAndSample ELSE Drop)
  /\ result.Tracestate = CurrentParent.TraceState
  /\ Len(FieldsOfKey(TsGet(result.Tracestate, "ot"), "th")) = 0

\* C24: no false probability.  When the parent is non-root, has its sampled
\* flag set and carries no th, a decision of
\* CompositeSampler(ConsistentParentBased(x)) is RecordAndSample and the
\* returned trace state is the parent's, unchanged and without th; when the
\* parent is not sampled and carries no th, the decision is Drop and the
\* trace state is unchanged too.
C24_NoFalseProbability ==
  (CallDone /\ ParentBasedWithoutTh) => (Returned /\ FlagDecision)

\* C24 for the calls that return
C24_WhenReturned ==
  (Returned /\ ParentBasedWithoutTh) => FlagDecision

----------------------------------------------------------------------------
(* C25 *)

RatioDone == op.name = "TraceIDRatioBased" /\ ret.done

\* the supported fractions the fraction of the call is compared with
SupportedInputs == { k \in RatioInputs : InSupportedRange(k) }

\* C25: monotonic thresholds.  For any two supported fractions f1 <= f2 the
\* threshold stored by TraceIDRatioBased(f1) is >= the threshold stored by
\* TraceIDRatioBased(f2), also when the two are rounded to different
\* precisions, and equal fractions give equal thresholds.
C25_MonotonicThresholds ==
  (RatioDone /\ InSupportedRange(op.scaled)) =>
    \A f2 \in SupportedInputs :
      /\ Leq(op.scaled, f2) =>
           Leq(TraceIDRatioBased(f2).threshold, ret.v.threshold)
      /\ op.scaled = f2 => TraceIDRatioBased(f2).threshold = ret.v.threshold

\* the fraction just below 2^-4 has been given its threshold: it is rounded
\* to five digits, the fraction 2^-4 to four, and the two thresholds are in
\* order (here equal)
C25_Witness ==
  /\ RatioDone
  /\ op.scaled = RatioRun(1, maxp - 1)
  /\ RatioPrecision(op.scaled) = 5
  /\ RatioPrecision(RatioDigits(0, 1, 0, 8)) = 4
  /\ Lt(op.scaled, RatioDigits(0, 1, 0, 8))
  /\ Leq(TraceIDRatioBased(RatioDigits(0, 1, 0, 8)).threshold, ret.v.threshold)
  /\ ret.v.threshold = ParseUint("f0000000000000").v

----------------------------------------------------------------------------
(* C26 *)

\* the unrounded threshold 2^56 - k of the fraction k / 2^56
RawThreshold(k) == Sub(maxAdjustedCount, k)

\* the leading zero digits of a 56-bit value
LeadingZeroDigits(t) == FirstNonZero(t, 1) - (Int64Digits - maxp) - 1

\* C26: precision grows toward both extremes.  TraceIDRatioBased retains
\* more hex digits both when the fraction is close to 0 and when it is close
\* to 1 (a threshold with leading 0 digits), so every supported fraction
\* gets a non-zero threshold and does not collapse to 0 (always sample).
C26_PrecisionAtBothExtremes ==
  (RatioDone /\ InSupportedRange(op.scaled)) =>
    /\ ret.v.threshold # ALWAYS_SAMPLE_THRESHOLD
    /\ RatioPrecision(op.scaled)
         >= (IF 4 + LeadingZeroDigits(op.scaled) < 14
             THEN 4 + LeadingZeroDigits(op.scaled) ELSE 14)
    /\ RatioPrecision(op.scaled)
         >= (IF 4 + LeadingZeroDigits(RawThreshold(op.scaled)) < 14
             THEN 4 + LeadingZeroDigits(RawThreshold(op.scaled)) ELSE 14)

\* what holds: the precision grows toward 0 only; from 2^-4 up it is four
\* digits, and the threshold is 0 exactly for the fractions above
\* 1 - 2^-17, whose unrounded threshold is below half of 16^10
C26_PrecisionTowardZeroOnly ==
  (RatioDone /\ InSupportedRange(op.scaled)) =>
    /\ RatioPrecision(op.scaled)
         = (IF 4 + LeadingZeroDigits(op.scaled) < 14
            THEN 4 + LeadingZeroDigits(op.scaled) ELSE 14)
    /\ ret.v.threshold = ALWAYS_SAMPLE_THRESHOLD
         <=> Lt(RawThreshold(op.scaled), ParseUint("00008000000000").v)

\* a supported fraction, 1 - 2^-20, was given the threshold 0
C26_CollapsesToAlways ==
  /\ RatioDone
  /\ op.scaled = RatioRun(0, 5)
  /\ InSupportedRange(op.scaled)
  /\ ret.v.threshold = ALWAYS_SAMPLE_THRESHOLD

----------------------------------------------------------------------------
(* C27 *)

\* C27: ratio threshold range.  For every fraction TraceIDRatioBased
\* accepts (2^-56 <= f <= 1 - 2^-52) the stored threshold lies in
\* [0, 2^56): the round-half-up step never carries it up to 2^56, the never
\* sentinel, and it never has more than 56 bits.
C27_RatioThresholdRange ==
  (RatioDone /\ InSupportedRange(op.scaled)) =>
    /\ ret.v.kind = "TraceIDRatioBased"
    /\ Leq(Int64Zero, ret.v.threshold)
    /\ Lt(ret.v.threshold, maxAdjustedCount)
    /\ ret.v.threshold # NEVER_SAMPLE_THRESHOLD
    /\ \A i \in 1..(Int64Digits - maxp) : ret.v.threshold[i] = 0

\* a small fraction whose threshold, one with a leading f digit, was
\* rounded up with digits discarded, and stayed below 2^56
C27_Witness ==
  /\ RatioDone
  /\ InSupportedRange(op.scaled)
  /\ RatioPrecision(op.scaled) < maxp
  /\ RawThreshold(op.scaled)[Int64Digits - maxp + 1] = 15
  /\ Lt(RawThreshold(op.scaled), ret.v.threshold)
  /\ Lt(ret.v.threshold, maxAdjustedCount)

----------------------------------------------------------------------------
(* C28 *)

\* the evaluator of every cell was started at most once
LazyAtMostOnce == \A cell \in LazyCells : heap[cell].runs <= 1

\* a value Value() returned: it was assigned by the evaluator before the
\* return, and it is the value the cell holds
IsTheValue(r) == r.set /\ r.value = heap[r.cell].value

\* every Value() call that returned, to a caller or to an evaluator,
\* returned the value of the cell's one run
LazyReturnsTheValue ==
  \A g \in Goroutines :
    /\ \A i \in 1..Len(procs[g].got) : IsTheValue(procs[g].got[i])
    /\ \A k \in 1..Len(procs[g].stack) :
         \A i \in 1..Len(procs[g].stack[k].read) :
           IsTheValue(procs[g].stack[k].read[i])

\* a goroutine has calls left to make or to finish
Unfinished(g) == Len(procs[g].stack) > 0 \/ Len(procs[g].todo) > 0

\* a goroutine can take a step: only o.m.Lock() can make it wait
CanStep(g) ==
  /\ Unfinished(g)
  /\ (Len(procs[g].stack) > 0 /\ Top(g).pc = "lock") => ~heap[Top(g).cell].locked

\* no call waits for ever: while calls are unfinished, one can step
LazyNotStuck ==
  (~Crashed /\ \E g \in Goroutines : Unfinished(g))
    => \E g \in Goroutines : CanStep(g)

\* C28: one-shot memoizer.  However many times Value() of a lazy cell is
\* called, by concurrent callers or nested samplers within one decision,
\* the evaluator runs at most once, every call returns the value that run
\* produced, and none returns before the value is set; in the dependency
\* chain of ShouldSample (threshold and randomness read the fragment cell,
\* which reads the parent-context cell) every call terminates with each
\* cell evaluated at most once.
C28_OneShotMemoizer ==
  /\ LazyAtMostOnce
  /\ LazyReturnsTheValue
  /\ LazyNotStuck
  /\ \A g \in Goroutines : procs[g].state # "panic"

\* C28 but for the calls that panic: at most one run of each evaluator,
\* the returned values are those of that run, and no call waits for ever
C28_ButForPanics ==
  /\ LazyAtMostOnce
  /\ LazyReturnsTheValue
  /\ LazyNotStuck

\* both goroutines have made all their calls and know the threshold 2^55
\* of the parent's th:8, which the evaluator computed once
C28_AllCallsReturned ==
  /\ \A g \in Goroutines : ~Unfinished(g) /\ procs[g].state = "running"
  /\ \A cell \in LazyCells : heap[cell].runs = 1
  /\ \E g \in Goroutines :
       /\ Len(procs[g].got) = 3
       /\ procs[g].got[1]
            = [cell |-> "threshold", value |-> ParseUint("80000000000000").v,
               set |-> TRUE]

----------------------------------------------------------------------------
(* C29 *)

WouldSampleDone == op.name = "WouldSample" /\ ret.done

\* C29: WouldSample uses a strict comparison.  WouldSample(params) is true
\* iff the intent's threshold is below the randomness of the call, the
\* decision selects iff the threshold is at most the randomness, and so the
\* two differ exactly when the threshold equals the randomness, an
\* always-on threshold 0 with randomness 0 included.
C29_StrictWouldSample ==
  WouldSampleDone =>
    /\ ret.v = Lt(op.intent.Threshold, op.params.randomnessValue)
    /\ ret.sampled = Leq(op.intent.Threshold, op.params.randomnessValue)
    /\ (ret.v # ret.sampled)
         = (op.intent.Threshold = op.params.randomnessValue)

\* the threshold 0 was asked about with randomness 0: the decision selects,
\* WouldSample says no
C29_Witness ==
  /\ WouldSampleDone
  /\ op.intent.Threshold = ALWAYS_SAMPLE_THRESHOLD
  /\ op.params.randomnessValue = Int64Zero
  /\ ret.sampled
  /\ ~ret.v

\* a threshold in (0, 2^56) equal to the randomness: the two differ as well
C29_EqualAboveZero ==
  /\ WouldSampleDone
  /\ op.intent.Threshold = ParseUint("80000000000000").v
  /\ op.params.randomnessValue = op.intent.Threshold
  /\ ret.sampled
  /\ ~ret.v

----------------------------------------------------------------------------
(* C30 *)

\* the call returned the decision ExportOnly
ExportOnlyReturned == Returned /\ result.Decision = ExportOnly

\* the th sub-fields of the ot fragment of a trace state
ThFields(ts) == FieldsOfKey(TsGet(ts, "ot"), "th")

\* C30: export-only does not propagate.  When the decision is ExportOnly
\* (the intent is not selected and has Export set), the th sub-field of the
\* returned trace state is the same as in the parent's trace state, even
\* when the intent's threshold differs from the inherited one.
C30_ExportOnlyDoesNotPropagate ==
  ExportOnlyReturned =>
    ThFields(result.Tracestate) = ThFields(CurrentParent.TraceState)

\* what does hold: an export-only decision returns the trace state it
\* started from when the intent's threshold is the inherited one, and
\* otherwise that trace state rewritten with the intent's threshold
C30_ExportOnlyRewrites ==
  ExportOnlyReturned =>
    /\ result.combined = (result.intent.Threshold # result.threshold)
    /\ result.Tracestate
         = IF result.combined
           THEN combineTracestate(BaseTracestate(result.intent, CurrentParent),
                                  result.intent.Threshold).ts
           ELSE BaseTracestate(result.intent, CurrentParent)

\* an export-only decision on a root span, the intent's threshold 2^55 with
\* no producer of a trace state: the returned trace state is "ot=th:8"
C30_ThPropagated ==
  /\ ExportOnlyReturned
  /\ ~params.ParentContext.hasSpan
  /\ result.intent.TraceState.nil
  /\ result.intent.Threshold = ParseUint("80000000000000").v
  /\ result.Tracestate = << OtMember("th:8") >>

====
